---- MODULE Spec2Model ----
(***************************************************************************)
(* A model of the traversal / classification / reading / reporting core of *)
(* src/llm_context/toolbelt.py (POSIX build).                              *)
(*                                                                         *)
(* Text is modelled as it is in the program: a bytes object is a sequence  *)
(* of integers 0..255, a str is a sequence of Unicode code points, a file  *)
(* name is a str, and a path is a sequence of names (its components).      *)
(***************************************************************************)
EXTENDS Integers, Sequences, FiniteSets, TLC

VARIABLES
    chunk, binary, bpc,                       \* is_binary_bytes applied alone
    fs, envSteps,                             \* the filesystem and its other users
    path, max_bytes, size, f, data, result, rpc, \* one call of read_text_safe
    exc,                                      \* the exception its handler caught
    snap,                                     \* the filesystem as the call found it
    base, include_exts, stack, root, dirs, files, wpc, \* one iter_files generator
    yielded,                                  \* what it has yielded so far
    walks,                                    \* the calls a caller made before it
    args, findings, content, out, mpc,        \* one invocation of main
    clock, stdout, ret, bodies,               \* the process's surroundings
    out_parts, handle,                        \* a handler's out list and open file
    exits,                                    \* the exit statuses of the processes
    urls, requests,                           \* link-check-md: the URLs still to check
                                              \* of a file, and the requests sent
    argv, branch,                             \* main's argument list, and the branch
                                              \* of its if/elif chain that ran
    spans                                     \* many-params-scan: the functions of a
                                              \* file its outer loop has still to take

binVars  == <<chunk, binary, bpc>>
fsVars   == <<fs, envSteps>>
readVars == <<path, max_bytes, size, f, data, result, rpc, exc, snap>>
walkVars == <<base, include_exts, stack, root, dirs, files, wpc, yielded, walks>>
loopVars == <<urls, requests, spans>>
dispatchVars == <<argv, branch>>
cmdVars  == <<out_parts, handle, exits, loopVars, dispatchVars>>
mainVars == <<args, findings, content, out, mpc, clock, stdout, ret, bodies, cmdVars>>
vars     == <<binVars, fsVars, readVars, walkVars, mainVars>>

----------------------------------------------------------------------------
(* Generic helpers *)

Min(a, b) == IF a < b THEN a ELSE b
Max(a, b) == IF a > b THEN a ELSE b

\* Optional[T]: None is the empty tuple, a value x is <<x>>
None == <<>>
Some(x) == <<x>>
IsSome(o) == o # <<>>
Val(o) == o[1]

\* data[:n] of Python, n >= 0
Prefix(s, n) == SubSeq(s, 1, Min(n, Len(s)))

\* b * n of Python: n copies of the byte b
Rep(b, n) == [i \in 1..n |-> b]

----------------------------------------------------------------------------
(* str literals: the code points of an ASCII string *)

\* the printable ASCII characters, code points 32..126 in order; a blank
\* stands where the backquote (96) would be, which no literal here uses
Ascii == " !\"#$%&'()*+,-./0123456789:;<=>?@ABCDEFGHIJKLMNOPQRSTUVWXYZ[\\]^_ abcdefghijklmnopqrstuvwxyz{|}~"

\* ord(ch) of a printable ASCII character
Ord(ch) ==
    31 + CHOOSE i \in 1..Len(Ascii) :
             /\ SubSeq(Ascii, i, i) = ch
             /\ \A j \in 1..(i - 1) : SubSeq(Ascii, j, j) # ch

\* the str with the characters of the literal lit
Str(lit) == [i \in 1..Len(lit) |-> Ord(SubSeq(lit, i, i))]

LF == 10

----------------------------------------------------------------------------
(* is_binary_bytes *)

\* the float literal of line 82, as the fraction ThresholdNum / ThresholdDen
ThresholdNum == 30
ThresholdDen == 100

\* bytearray({7, 8, 9, 10, 12, 13, 27} | set(range(0x20, 0x100)))
text_characters == {7, 8, 9, 10, 12, 13, 27} \cup (32..255)

\* chunk.translate(None, text_characters): the bytes of c left after deleting
\* every byte of text_characters
TranslateDelete(c, del) == SelectSeq(c, LAMBDA b : b \notin del)

\* a plausible slip: >= in place of > at the threshold
is_binary_bytes_ge(c) ==
    IF \E i \in 1..Len(c) : c[i] = 0
    THEN TRUE
    ELSE LET nontext == TranslateDelete(c, text_characters)
         IN  Len(nontext) * ThresholdDen >= ThresholdNum * Max(1, Len(c))

\* float(len(nontext)) / max(1, len(chunk)) > 0.30.  The quotient is a correctly
\* rounded double; for len(chunk) < 2^50 it compares with the double 0.30 exactly
\* as the rational n/m compares with 3/10, which is what is computed here.
is_binary_bytes(c) ==
    IF \E i \in 1..Len(c) : c[i] = 0
    THEN TRUE
    ELSE LET nontext == TranslateDelete(c, text_characters)
         IN  Len(nontext) * ThresholdDen > ThresholdNum * Max(1, Len(c))

----------------------------------------------------------------------------
(* bytes.decode("utf-8", errors="replace") and str.encode("utf-8") *)

\* U+FFFD, the replacement character the "replace" handler inserts
REPLACEMENT == 65533

IsCont(b) == b >= 128 /\ b <= 191

\* the second byte a three- or four-byte lead b0 admits
SecondOk(b0, b1) ==
    /\ IsCont(b1)
    /\ (b0 = 224 => b1 >= 160)
    /\ (b0 = 237 => b1 <= 159)
    /\ (b0 = 240 => b1 >= 144)
    /\ (b0 = 244 => b1 <= 143)

\* The unit that starts at the non-ASCII byte s[i]: <<code point, bytes used>>.
\* An ill-formed or truncated sequence gives one REPLACEMENT for its maximal
\* well-formed prefix (at least the lead byte), as CPython's decoder does.
DecodeUnit(s, i) ==
    LET n == Len(s)
        avail == n - i + 1
        b0 == s[i]
        need == IF b0 >= 194 /\ b0 <= 223 THEN 2
                ELSE IF b0 >= 224 /\ b0 <= 239 THEN 3
                ELSE IF b0 >= 240 /\ b0 <= 244 THEN 4
                ELSE 0
    IN  IF need = 0 THEN <<REPLACEMENT, 1>>
        ELSE IF avail < 2 THEN <<REPLACEMENT, 1>>
        ELSE IF need = 2
             THEN IF IsCont(s[i+1])
                  THEN <<(b0 - 192) * 64 + (s[i+1] - 128), 2>>
                  ELSE <<REPLACEMENT, 1>>
        ELSE IF ~SecondOk(b0, s[i+1]) THEN <<REPLACEMENT, 1>>
        ELSE IF avail < 3 THEN <<REPLACEMENT, 2>>
        ELSE IF ~IsCont(s[i+2]) THEN <<REPLACEMENT, 2>>
        ELSE IF need = 3
             THEN <<(b0 - 224) * 4096 + (s[i+1] - 128) * 64 + (s[i+2] - 128), 3>>
        ELSE IF avail < 4 THEN <<REPLACEMENT, 3>>
        ELSE IF ~IsCont(s[i+3]) THEN <<REPLACEMENT, 3>>
        ELSE <<(b0 - 240) * 262144 + (s[i+1] - 128) * 4096
                 + (s[i+2] - 128) * 64 + (s[i+3] - 128), 4>>

\* the decoding of s[i..]; a stretch of ASCII bytes is copied whole
RECURSIVE DecodeFrom(_, _)
DecodeFrom(s, i) ==
    IF i > Len(s) THEN <<>>
    ELSE LET hi == {k \in i..Len(s) : s[k] >= 128}
             j == IF hi = {} THEN Len(s) + 1
                  ELSE CHOOSE k \in hi : \A l \in hi : k <= l
         IN  IF j > i
             THEN SubSeq(s, i, j - 1) \o DecodeFrom(s, j)
             ELSE LET u == DecodeUnit(s, i)
                  IN  <<u[1]>> \o DecodeFrom(s, i + u[2])


\* the UTF-8 bytes of one code point (no surrogates arise from a decode)
EncodeChar(c) ==
    IF c < 128 THEN <<c>>
    ELSE IF c < 2048 THEN <<192 + (c \div 64), 128 + (c % 64)>>
    ELSE IF c < 65536
         THEN <<224 + (c \div 4096), 128 + ((c \div 64) % 64), 128 + (c % 64)>>
    ELSE <<240 + (c \div 262144), 128 + ((c \div 4096) % 64),
           128 + ((c \div 64) % 64), 128 + (c % 64)>>

\* content.encode("utf-8"), as the text layer of open(..., encoding="utf-8") does
RECURSIVE Utf8Encode(_)
Utf8Encode(t) ==
    IF t = <<>> THEN <<>>
    ELSE LET asc == {k \in 1..Len(t) : t[k] >= 128}
             j == IF asc = {} THEN Len(t) + 1
                  ELSE CHOOSE k \in asc : \A l \in asc : k <= l
         IN  IF j > 1
             THEN SubSeq(t, 1, j - 1) \o Utf8Encode(SubSeq(t, j, Len(t)))
             ELSE EncodeChar(t[1]) \o Utf8Encode(Tail(t))

\* data.decode("utf-8", errors="replace"): total, it never raises
Utf8DecodeReplace(b) == DecodeFrom(b, 1)

----------------------------------------------------------------------------
(* The filesystem: a function from paths to entries.  A path is the sequence *)
(* of its components, each a name (a str).                                   *)

\* mtime is in seconds of the model's clock; what is there from the start has 0
File(bytes, readable) == [kind |-> "file", data |-> bytes, readable |-> readable, mtime |-> 0]
Dir == [kind |-> "dir", data |-> <<>>, readable |-> TRUE, mtime |-> 0]
\* a symbolic link to a directory (os.stat and open follow it)
DirLink == [kind |-> "link", data |-> <<>>, readable |-> TRUE, mtime |-> 0]
\* a symbolic link to the directory t of this filesystem
LinkTo(t) == [kind |-> "link", data |-> <<>>, readable |-> TRUE, mtime |-> 0, target |-> t]

Exists(p) == p \in DOMAIN fs
IsDir(p) == Exists(p) /\ fs[p].kind = "dir"
IsFile(p) == Exists(p) /\ fs[p].kind = "file"

\* st_size of a directory is whatever the filesystem reports for it
DirSizes == {0, 4096}

\* os.path.getsize(p): the sizes os.stat may report for an existing entry
StSize(p) == IF fs[p].kind = "file" THEN {Len(fs[p].data)} ELSE DirSizes

----------------------------------------------------------------------------
(* read_text_safe, one step per system call *)

\* is_binary_bytes(data[:1024]): the length of the sample
SampleLen == 1024

\* max_bytes: int = 2_000_000
DefaultMaxBytes == 2000000

\* the exceptions the steps raise; all are subclasses of Exception
OSErrors == {"FileNotFoundError", "PermissionError", "IsADirectoryError", "OSError"}

\* a plausible slip: a handler for FileNotFoundError alone; any other
\* exception leaves read_text_safe
ReadExceptNarrow(e) ==
    /\ rpc' = IF e = "FileNotFoundError" THEN "returned" ELSE "raised"
    /\ result' = None
    /\ exc' = Some(e)
    /\ f' = None

\* except Exception: return None (the with statement has closed f)
ReadExcept(e) ==
    /\ rpc' = "returned"
    /\ result' = None
    /\ exc' = Some(e)
    /\ f' = None

\* read_text_safe(p, max_bytes=mb) is entered: fresh locals
ReadCall(p, mb) ==
    /\ rpc = "idle"
    /\ path' = p
    /\ max_bytes' = mb
    /\ size' = None /\ f' = None /\ data' = None /\ result' = None /\ exc' = None
    /\ rpc' = "getsize"
    /\ snap' = Some(fs)
    /\ UNCHANGED <<fsVars, binVars, walkVars, mainVars>>

\* a plausible slip: >= in place of > in the size check
ReadGetSizeGe ==
    /\ rpc = "getsize"
    /\ IF ~Exists(path)
       THEN /\ ReadExcept("FileNotFoundError")
            /\ UNCHANGED size
       ELSE \E sz \in StSize(path) :
              /\ size' = Some(sz)
              /\ rpc' = IF sz >= max_bytes THEN "returned" ELSE "open"
              /\ UNCHANGED <<result, f, exc>>
    /\ UNCHANGED <<path, max_bytes, data, snap, fsVars, binVars, walkVars, mainVars>>

\* size = os.path.getsize(path); if size > max_bytes: return None
ReadGetSize ==
    /\ rpc = "getsize"
    /\ IF ~Exists(path)
       THEN /\ ReadExcept("FileNotFoundError")
            /\ UNCHANGED size
       ELSE \E sz \in StSize(path) :
              /\ size' = Some(sz)
              /\ rpc' = IF sz > max_bytes THEN "returned" ELSE "open"
              /\ UNCHANGED <<result, f, exc>>
    /\ UNCHANGED <<path, max_bytes, data, snap, fsVars, binVars, walkVars, mainVars>>

\* open(path, "rb").  The handle refers to the file itself: when the path is
\* unlinked later the handle keeps the bytes (orphan).
ReadOpen ==
    /\ rpc = "open"
    /\ IF ~Exists(path) THEN ReadExcept("FileNotFoundError")
       ELSE IF fs[path].kind # "file" THEN ReadExcept("IsADirectoryError")
       ELSE IF ~fs[path].readable THEN ReadExcept("PermissionError")
       ELSE /\ f' = Some([linked |-> TRUE, orphan |-> <<>>])
            /\ rpc' = "read"
            /\ UNCHANGED <<result, exc>>
    /\ UNCHANGED <<path, max_bytes, size, data, snap, fsVars, binVars, walkVars, mainVars>>

\* the bytes the open handle reaches now
HandleBytes == IF Val(f).linked THEN fs[path].data ELSE Val(f).orphan

\* a plausible slip: f.read(1024), which reads the sample and no more
ReadReadSample ==
    /\ rpc = "read"
    /\ IF "fault" \in envSteps
       THEN /\ ReadExcept("OSError")
            /\ UNCHANGED data
       ELSE /\ data' = Some(Prefix(HandleBytes, SampleLen))
            /\ f' = None
            /\ rpc' = "classify"
            /\ UNCHANGED <<result, exc>>
    /\ UNCHANGED <<path, max_bytes, size, snap, fsVars, binVars, walkVars, mainVars>>

\* data = f.read(): every byte of the file as it is now, or OSError when the
\* device has failed; leaving the with block closes f
ReadRead ==
    /\ rpc = "read"
    /\ IF "fault" \in envSteps
       THEN /\ ReadExcept("OSError")
            /\ UNCHANGED data
       ELSE /\ data' = Some(HandleBytes)
            /\ f' = None
            /\ rpc' = "classify"
            /\ UNCHANGED <<result, exc>>
    /\ UNCHANGED <<path, max_bytes, size, snap, fsVars, binVars, walkVars, mainVars>>

\* a plausible slip: the whole of data classified, not data[:1024]
ReadFinishWhole ==
    /\ rpc = "classify"
    /\ result' = IF is_binary_bytes(Val(data)) THEN None
                 ELSE Some(Utf8DecodeReplace(Val(data)))
    /\ rpc' = "returned"
    /\ UNCHANGED <<path, max_bytes, size, f, data, exc, snap, fsVars, binVars, walkVars, mainVars>>

\* if is_binary_bytes(data[:1024]): return None
\* return data.decode("utf-8", errors="replace")
ReadFinish ==
    /\ rpc = "classify"
    /\ result' = IF is_binary_bytes(Prefix(Val(data), SampleLen)) THEN None
                 ELSE Some(Utf8DecodeReplace(Val(data)))
    /\ rpc' = "returned"
    /\ UNCHANGED <<path, max_bytes, size, f, data, exc, snap, fsVars, binVars, walkVars, mainVars>>

----------------------------------------------------------------------------
(* Other processes acting on the file being read, each at most once *)

\* the file is deleted; an open handle keeps its bytes
EnvUnlink ==
    /\ rpc \in {"getsize", "open", "read"}
    /\ "unlink" \notin envSteps
    /\ IsFile(path)
    /\ fs' = [p \in DOMAIN fs \ {path} |-> fs[p]]
    /\ envSteps' = envSteps \cup {"unlink"}
    /\ f' = IF IsSome(f) /\ Val(f).linked
            THEN Some([linked |-> FALSE, orphan |-> fs[path].data])
            ELSE f
    /\ UNCHANGED <<path, max_bytes, size, data, result, rpc, exc, snap, binVars, walkVars, mainVars>>

\* the file loses its read permission; an open handle is not affected
EnvChmod ==
    /\ rpc \in {"getsize", "open", "read"}
    /\ "chmod" \notin envSteps
    /\ IsFile(path) /\ fs[path].readable
    /\ fs' = [fs EXCEPT ![path].readable = FALSE]
    /\ envSteps' = envSteps \cup {"chmod"}
    /\ UNCHANGED <<readVars, binVars, walkVars, mainVars>>

\* the device fails under the open file: the read that follows raises OSError
EnvFault ==
    /\ rpc = "read"
    /\ "fault" \notin envSteps
    /\ envSteps' = envSteps \cup {"fault"}
    /\ UNCHANGED <<fs, readVars, binVars, walkVars, mainVars>>

\* bytes are appended to the file
EnvAppend(bytes) ==
    /\ rpc \in {"getsize", "open", "read"}
    /\ "append" \notin envSteps
    /\ IsFile(path)
    /\ fs' = [fs EXCEPT ![path].data = @ \o bytes]
    /\ envSteps' = envSteps \cup {"append"}
    /\ UNCHANGED <<readVars, binVars, walkVars, mainVars>>

----------------------------------------------------------------------------
(* Paths.  An absolute path is the sequence of its components below "/"; *)
(* an argument path is taken relative to the working directory.           *)

CURDIR == Str(".")
PARDIR == Str("..")

\* os.getcwd()
Cwd == <<Str("w")>>

\* os.path.normpath of an absolute path: "." dropped, ".." steps up (not
\* above "/")
RECURSIVE Normpath(_)
Normpath(p) ==
    IF p = <<>> THEN <<>>
    ELSE LET init == Normpath(SubSeq(p, 1, Len(p) - 1))
             last == p[Len(p)]
         IN  IF last = CURDIR THEN init
             ELSE IF last = PARDIR
                  THEN SubSeq(init, 1, Max(0, Len(init) - 1))
             ELSE Append(init, last)

\* os.path.abspath(p) for a relative p
Abspath(p) == Normpath(Cwd \o p)

\* os.path.join(root, name)
Join(dir, name) == Append(dir, name)

\* len(os.path.commonprefix([a, b])) on component lists
CommonLen(a, b) ==
    LET same == {k \in 0..Min(Len(a), Len(b)) : SubSeq(a, 1, k) = SubSeq(b, 1, k)}
    IN  CHOOSE k \in same : \A l \in same : l <= k

\* os.path.relpath(p, start), both absolute and normal
Relpath(p, start) ==
    LET i == CommonLen(start, p)
        rel == [k \in 1..(Len(start) - i) |-> PARDIR] \o SubSeq(p, i + 1, Len(p))
    IN  IF rel = <<>> THEN <<CURDIR>> ELSE rel

\* a plausible slip: the path made relative to the working directory, not to
\* the root of the walk
safe_relpath_cwd(p, b) == IF p = <<>> /\ b = <<>> THEN p ELSE Relpath(p, Cwd)

\* safe_relpath: relpath raises only for an empty path string (or across
\* drives on Windows), which no joined path is; then the path itself is kept
safe_relpath(p, b) == IF p = <<>> /\ b = <<>> THEN p ELSE Relpath(p, b)

StartsWith(s, pre) == Len(s) >= Len(pre) /\ SubSeq(s, 1, Len(pre)) = pre

\* str.lower(); names are ASCII here
Lower(s) == [i \in 1..Len(s) |-> IF s[i] >= 65 /\ s[i] <= 90 THEN s[i] + 32 ELSE s[i]]

\* os.path.splitext(name)[1]: from the last dot, unless only dots precede it
SplitExt(name) ==
    LET dots == {i \in 1..Len(name) : name[i] = 46}
        dotIndex == CHOOSE i \in dots : \A j \in dots : j <= i
    IN  IF dots = {} THEN <<>>
        ELSE IF \E k \in 1..(dotIndex - 1) : name[k] # 46
             THEN SubSeq(name, dotIndex, Len(name))
        ELSE <<>>

----------------------------------------------------------------------------
(* iter_files over os.walk(base), one step per directory and per file *)

DEFAULT_EXCLUDE_DIRS ==
    {Str(".git"), Str("node_modules"), Str(".venv"), Str("venv"), Str("dist"),
     Str("build"), Str("__pycache__"), Str(".idea"), Str(".vscode"),
     Str(".pytest_cache"), Str(".mypy_cache")}

\* a plausible slip: the test of the leading dot left out
KeepDirSetOnly(d) == d \notin DEFAULT_EXCLUDE_DIRS

\* d not in DEFAULT_EXCLUDE_DIRS and not d.startswith('.')
KeepDir(d) == d \notin DEFAULT_EXCLUDE_DIRS /\ ~StartsWith(d, Str("."))

\* a plausible slip: the rule applied to the file names as well
ExcludeDirsAndFiles(ds, fl) ==
    [dirs |-> SelectSeq(ds, KeepDir), files |-> SelectSeq(fl, KeepDir)]

\* a plausible slip: dirs rebound to the pruned list, not pruned in place,
\* so that os.walk descends into every directory
ExcludeNothing(ds, fl) == [dirs |-> ds, files |-> fl]

\* dirs[:] = [d for d in dirs if ...]: dirs is pruned in place, files is not
ExcludeDirs(ds, fl) == [dirs |-> SelectSeq(ds, KeepDir), files |-> fl]

\* a plausible slip: the extension compared as it is spelt
FileExtAsSpelt(name) == SplitExt(name)

\* ext = os.path.splitext(name)[1].lower()
FileExt(name) == Lower(SplitExt(name))

\* the orders in which a directory listing may come
Perms(S) == {s \in [1..Cardinality(S) -> S] : \A i, j \in 1..Cardinality(S) : s[i] = s[j] => i = j}

\* the directory a path leads to, the links among its components followed
RECURSIVE Realpath(_)
Realpath(p) ==
    IF p = <<>> THEN <<>>
    ELSE LET q == Append(Realpath(SubSeq(p, 1, Len(p) - 1)), p[Len(p)])
         IN  IF q \in DOMAIN fs /\ "target" \in DOMAIN fs[q] THEN fs[q].target ELSE q

\* where the entry named by p is: in the directory its other components lead to
Where(p) == IF p = <<>> THEN p ELSE Append(Realpath(SubSeq(p, 1, Len(p) - 1)), p[Len(p)])

\* the names in directory top
Children(top) ==
    {p[Len(p)] : p \in {q \in DOMAIN fs : Len(q) = Len(Realpath(top)) + 1
                                          /\ SubSeq(q, 1, Len(Realpath(top))) = Realpath(top)}}

\* entry.is_dir(): a directory, or a symbolic link to one
EntryIsDir(p) == fs[Where(p)].kind \in {"dir", "link"}

Reverse(s) == [i \in 1..Len(s) |-> s[Len(s) + 1 - i]]

\* a plausible slip: a call made while another generator is unfinished goes
\* on from where that one stands
WalkStartResumes(p, exts) ==
    /\ base' = Abspath(p)
    /\ include_exts' = exts
    /\ yielded' = <<>>
    /\ IF wpc \in {"idle", "done"}
       THEN /\ stack' = <<Abspath(p)>>
            /\ root' = <<>> /\ dirs' = <<>> /\ files' = <<>>
            /\ wpc' = "walk"
       ELSE /\ wpc' = "files"
            /\ UNCHANGED <<stack, root, dirs, files>>

\* for ... in iter_files(p, include_exts=exts): the generator is created; its
\* body starts with base = os.path.abspath(base) and os.walk(base)
WalkStart(p, exts) ==
    /\ base' = Abspath(p)
    /\ include_exts' = exts
    /\ stack' = <<Abspath(p)>>
    /\ root' = <<>> /\ dirs' = <<>> /\ files' = <<>>
    /\ yielded' = <<>>
    /\ wpc' = "walk"

\* os.walk: top = stack.pop(); scandir(top), whose error (no such directory,
\* not a directory) is ignored; the listing is split by is_dir() into dirs and
\* nondirs and handed to iter_files, which prunes dirs (line 103)
WalkDir ==
    /\ wpc = "walk"
    /\ stack # <<>>
    /\ LET top == stack[Len(stack)]
       IN  /\ stack' = SubSeq(stack, 1, Len(stack) - 1)
           /\ IF ~(Exists(Where(top)) /\ EntryIsDir(top))
              THEN UNCHANGED <<root, dirs, files, wpc>>
              ELSE \E ds \in Perms({n \in Children(top) : EntryIsDir(Join(top, n))}),
                      fl \in Perms({n \in Children(top) : ~EntryIsDir(Join(top, n))}) :
                     /\ root' = top
                     /\ dirs' = ExcludeDirs(ds, fl).dirs
                     /\ files' = ExcludeDirs(ds, fl).files
                     /\ wpc' = "files"
    /\ UNCHANGED <<base, include_exts, yielded, walks>>
    /\ UNCHANGED <<fsVars, readVars, binVars, mainVars>>

\* for name in files: ... continue, or yield full, rel
WalkFile ==
    /\ wpc = "files"
    /\ files # <<>>
    /\ LET name == Head(files)
           full == Join(root, name)
           rel == safe_relpath(full, base)
       IN  /\ files' = Tail(files)
           /\ IF IsSome(include_exts) /\ FileExt(name) \notin Val(include_exts)
              THEN UNCHANGED <<yielded, wpc>>
              ELSE /\ yielded' = Append(yielded, <<full, rel>>)
                   /\ wpc' = "yielded"
    /\ UNCHANGED <<base, include_exts, stack, root, dirs, walks>>
    /\ UNCHANGED <<fsVars, readVars, binVars, mainVars>>

\* a plausible slip: os.walk asked to follow the links to directories
WalkDescendFollowsLinks ==
    /\ wpc = "files"
    /\ files = <<>>
    /\ stack' = stack \o Reverse([i \in 1..Len(dirs) |-> Join(root, dirs[i])])
    /\ dirs' = <<>>
    /\ wpc' = "walk"
    /\ UNCHANGED <<base, include_exts, root, files, yielded, walks>>
    /\ UNCHANGED <<fsVars, readVars, binVars, mainVars>>

\* os.walk resumed after the last file: the dirs still in the list are pushed,
\* except symbolic links (followlinks is False)
WalkDescend ==
    /\ wpc = "files"
    /\ files = <<>>
    /\ stack' = stack \o Reverse(SelectSeq([i \in 1..Len(dirs) |-> Join(root, dirs[i])],
                                           LAMBDA q : fs[Where(q)].kind # "link"))
    /\ dirs' = <<>>
    /\ wpc' = "walk"
    /\ UNCHANGED <<base, include_exts, root, files, yielded, walks>>
    /\ UNCHANGED <<fsVars, readVars, binVars, mainVars>>

\* the stack is empty: os.walk and iter_files are exhausted
WalkEnd ==
    /\ wpc = "walk"
    /\ stack = <<>>
    /\ wpc' = "done"
    /\ UNCHANGED <<base, include_exts, stack, root, dirs, files, yielded, walks>>
    /\ UNCHANGED <<fsVars, readVars, binVars, mainVars>>

\* a consumer with nothing to do per entry asks for the next one
WalkResume ==
    /\ wpc = "yielded"
    /\ wpc' = "files"
    /\ UNCHANGED <<base, include_exts, stack, root, dirs, files, yielded, walks>>
    /\ UNCHANGED <<fsVars, readVars, binVars, mainVars>>

\* the caller is done with the generator, exhausted or not, and calls
\* iter_files again: what the dropped call had yielded is kept in walks
WalkAgain(p, exts) ==
    /\ wpc \in {"yielded", "done"}
    /\ walks' = Append(walks, [root |-> base, exts |-> include_exts,
                               rels |-> {yielded[i][2] : i \in 1..Len(yielded)},
                               exhausted |-> wpc = "done"])
    /\ WalkStart(p, exts)
    /\ UNCHANGED <<fsVars, readVars, binVars, mainVars>>

----------------------------------------------------------------------------
(* str operations used by cmd_todo_scan *)

\* the characters str.splitlines() breaks a line at
LineBreaks == {10, 11, 12, 13, 28, 29, 30, 133, 8232, 8233}

\* the characters str.strip() removes: those with str.isspace()
WhiteSpace ==
    {9, 10, 11, 12, 13, 28, 29, 30, 31, 32, 133, 160, 5760, 8232, 8233, 8239, 8287, 12288}
    \cup (8192..8202)

\* the characters the pattern \w matches, up to U+00FF; of the code points
\* above, the decoder here yields only U+FFFD, which \w does not match
WordChars ==
    (48..57) \cup (65..90) \cup {95} \cup (97..122)
    \cup {170, 178, 179, 181, 185, 186, 188, 189, 190}
    \cup (192..214) \cup (216..246) \cup (248..255)

\* text.splitlines(): "\r\n" is one break, and no empty last line
RECURSIVE SplitLines(_)
SplitLines(t) ==
    IF t = <<>> THEN <<>>
    ELSE LET brk == {i \in 1..Len(t) : t[i] \in LineBreaks}
         IN  IF brk = {} THEN <<t>>
             ELSE LET i == CHOOSE k \in brk : \A l \in brk : k <= l
                      skip == IF t[i] = 13 /\ i < Len(t) /\ t[i + 1] = 10 THEN 2 ELSE 1
                  IN  <<SubSeq(t, 1, i - 1)>> \o SplitLines(SubSeq(t, i + skip, Len(t)))

\* line.strip()
Strip(t) ==
    LET keep == {i \in 1..Len(t) : t[i] \notin WhiteSpace}
    IN  IF keep = {} THEN <<>>
        ELSE SubSeq(t, CHOOSE i \in keep : \A j \in keep : i <= j,
                       CHOOSE i \in keep : \A j \in keep : j <= i)

\* \b at the gap before position i of t (1..Len(t)+1)
WordBoundary(t, i) ==
    LET before == i > 1 /\ t[i - 1] \in WordChars
        after == i <= Len(t) /\ t[i] \in WordChars
    IN  before # after

\* re.compile(r"\bTODO\b", re.IGNORECASE).search(line) finds a match
SearchTODO(line) ==
    \E i \in 1..(Len(line) - 3) :
        /\ Lower(SubSeq(line, i, i + 3)) = Str("todo")
        /\ WordBoundary(line, i)
        /\ WordBoundary(line, i + 4)

\* str(n) for n >= 0
RECURSIVE Decimal(_)
Decimal(n) ==
    IF n < 10 THEN <<48 + n>> ELSE Decimal(n \div 10) \o <<48 + (n % 10)>>

\* a path as a str: its components joined by "/"
RECURSIVE PathStr(_)
PathStr(p) ==
    IF p = <<>> THEN <<>>
    ELSE IF Len(p) = 1 THEN p[1]
    ELSE p[1] \o <<47>> \o PathStr(Tail(p))

\* "".join(parts)
RECURSIVE Concat(_)
Concat(parts) == IF parts = <<>> THEN <<>> ELSE Head(parts) \o Concat(Tail(parts))

md_h1(title) == Str("# ") \o title \o <<LF, LF>>
md_h2(title) == Str("## ") \o title \o <<LF, LF>>

----------------------------------------------------------------------------
(* Text files and csv.reader, as cmd_csv_summary uses them *)

\* iterating a text file opened with newline='': a line ends after "\n",
\* "\r\n" or a lone "\r", and keeps its ending
RECURSIVE FileLines(_)
FileLines(t) ==
    IF t = <<>> THEN <<>>
    ELSE LET brk == {i \in 1..Len(t) : t[i] \in {10, 13}}
         IN  IF brk = {} THEN <<t>>
             ELSE LET i == CHOOSE k \in brk : \A l \in brk : k <= l
                      e == IF t[i] = 13 /\ i < Len(t) /\ t[i + 1] = 10 THEN i + 1 ELSE i
                  IN  <<SubSeq(t, 1, e)>> \o FileLines(SubSeq(t, e + 1, Len(t)))

\* the end-of-line mark the reader feeds its parser after each line
EOL == 0 - 1

\* the parser between records: no field saved, no row counted yet
CsvStart == [state |-> "START_RECORD", nfields |-> 0, rows |-> 0, cols |-> 0]

\* parse_save_field
CsvSave(m, st) == [m EXCEPT !.nfields = @ + 1, !.state = st]

\* the record is handed to the loop: rows += 1; cols = max(cols, len(r))
CsvRecord(m) ==
    [state |-> "START_RECORD", nfields |-> 0, rows |-> m.rows + 1,
     cols |-> Max(m.cols, m.nfields)]

\* parse_process_char for the excel dialect: delimiter ",", quotechar '"',
\* doublequote, no escapechar, not strict
CsvChar(m, c) ==
    LET nl == c \in {10, 13}
        after == IF c = EOL THEN "START_RECORD" ELSE "EAT_CRNL"
        st == IF m.state = "START_RECORD" /\ c # EOL /\ ~nl THEN "START_FIELD" ELSE m.state
    IN  CASE st = "START_RECORD" -> IF nl THEN [m EXCEPT !.state = "EAT_CRNL"] ELSE m
          [] st = "START_FIELD" ->
                IF nl \/ c = EOL THEN CsvSave(m, after)
                ELSE IF c = 34 THEN [m EXCEPT !.state = "IN_QUOTED_FIELD"]
                ELSE IF c = 44 THEN CsvSave(m, "START_FIELD")
                ELSE [m EXCEPT !.state = "IN_FIELD"]
          [] st = "IN_FIELD" ->
                IF nl \/ c = EOL THEN CsvSave(m, after)
                ELSE IF c = 44 THEN CsvSave(m, "START_FIELD")
                ELSE [m EXCEPT !.state = "IN_FIELD"]
          [] st = "IN_QUOTED_FIELD" ->
                IF c = 34 THEN [m EXCEPT !.state = "QUOTE_IN_QUOTED_FIELD"]
                ELSE [m EXCEPT !.state = "IN_QUOTED_FIELD"]
          [] st = "QUOTE_IN_QUOTED_FIELD" ->
                IF c = 34 THEN [m EXCEPT !.state = "IN_QUOTED_FIELD"]
                ELSE IF c = 44 THEN CsvSave(m, "START_FIELD")
                ELSE IF nl \/ c = EOL THEN CsvSave(m, after)
                ELSE [m EXCEPT !.state = "IN_FIELD"]
          [] st = "EAT_CRNL" ->
                IF c = EOL THEN [m EXCEPT !.state = "START_RECORD"] ELSE m

\* one line of the file: its characters, then the end-of-line mark; the
\* record is complete when the parser is back between records
RECURSIVE CsvLine(_, _, _)
CsvLine(m, line, i) ==
    IF i > Len(line)
    THEN LET n == CsvChar(m, EOL)
         IN  IF n.state = "START_RECORD" THEN CsvRecord(n) ELSE n
    ELSE CsvLine(CsvChar(m, line[i]), line, i + 1)

\* for r in rdr: the lines in turn; at the end of the input a quoted field
\* left open is saved and its record is the last one
RECURSIVE CsvLines(_, _)
CsvLines(m, lines) ==
    IF lines = <<>>
    THEN IF m.state = "IN_QUOTED_FIELD" THEN CsvRecord(CsvSave(m, "START_RECORD")) ELSE m
    ELSE CsvLines(CsvLine(m, Head(lines), 1), Tail(lines))

\* rows and cols as cmd_csv_summary counts them over the text of a file
CsvCount(text) == CsvLines(CsvStart, FileLines(text))

----------------------------------------------------------------------------
(* Markdown headings and file-name patterns, as cmd_changelog_summary and  *)
(* _read_first_md use them                                                  *)

\* fnmatch.fnmatch(name, "changelog*.md"): the name starts with the part
\* before the star and, after it, ends with the part behind the star
FnMatchStar(name, pre, post) ==
    /\ Len(name) >= Len(pre) + Len(post)
    /\ SubSeq(name, 1, Len(pre)) = pre
    /\ SubSeq(name, Len(name) - Len(post) + 1, Len(name)) = post

\* the first index from i on where t has no character of S (Len(t) + 1 if none)
SkipWhile(t, i, S) ==
    LET stop == {k \in i..Len(t) : t[k] \notin S}
    IN  IF stop = {} THEN Len(t) + 1 ELSE CHOOSE k \in stop : \A l \in stop : k <= l

\* the first index from i on where t has a character of S (Len(t) + 1 if none)
SkipUntil(t, i, S) ==
    LET stop == {k \in i..Len(t) : t[k] \in S}
    IN  IF stop = {} THEN Len(t) + 1 ELSE CHOOSE k \in stop : \A l \in stop : k <= l

\* the pattern ^#+\s+.*$ with re.MULTILINE matches at i: i begins a line,
\* a run of "#" is there and whitespace follows it
HeadingAt(t, i) ==
    /\ i = 1 \/ t[i - 1] = 10
    /\ t[i] = 35
    /\ SkipWhile(t, i, {35}) <= Len(t)
    /\ t[SkipWhile(t, i, {35})] \in WhiteSpace

\* where that match ends: \s+ takes the whole run of whitespace, line breaks
\* included, and .* the rest of the line the run ends on
HeadingEnd(t, i) ==
    SkipUntil(t, SkipWhile(t, SkipWhile(t, i, {35}), WhiteSpace), {10})

\* re.findall(r"^#+\s+.*$", text, flags=re.MULTILINE), searching from pos
RECURSIVE FindHeadings(_, _)
FindHeadings(t, pos) ==
    LET at == {i \in pos..Len(t) : HeadingAt(t, i)}
    IN  IF at = {} THEN <<>>
        ELSE LET i == CHOOSE k \in at : \A l \in at : k <= l
             IN  <<SubSeq(t, i, HeadingEnd(t, i) - 1)>> \o FindHeadings(t, HeadingEnd(t, i))

\* h.lstrip('# ').strip()
HeadingText(h) == Strip(SubSeq(h, SkipWhile(h, 1, {35, 32}), Len(h)))

\* the ten first headings are kept
MaxHeads == 10

----------------------------------------------------------------------------
(* main: the todo-scan subcommand, then report_path, write_text and print *)

\* --path, as the str it was given
ArgStr(p) == PathStr(p)

\* the findings of one file: (rel, i, line.strip()) for every line of text
\* the pattern finds, in line order
FileFindings(rel, text) ==
    LET lines == SplitLines(text)
    IN  SelectSeq([i \in 1..Len(lines) |-> <<rel, i, Strip(lines[i])>>],
                  LAMBDA x : SearchTODO(lines[x[2]]))

\* a plausible slip: the body without the line for no finding
TodoBodyNoFallback(p, fnd) ==
    Concat(<<md_h1(Str("TODO Scan")),
             Str("Scanned path: ") \o ArgStr(p) \o <<LF, LF>>,
             md_h2(Str("Findings"))>>
           \o [i \in 1..Len(fnd) |->
                  Str("- ") \o PathStr(fnd[i][1]) \o Str(":") \o Decimal(fnd[i][2])
                  \o Str(": ") \o fnd[i][3] \o <<LF>>])

\* the report body cmd_todo_scan joins from its findings
TodoBody(p, fnd) ==
    Concat(<<md_h1(Str("TODO Scan")),
             Str("Scanned path: ") \o ArgStr(p) \o <<LF, LF>>,
             md_h2(Str("Findings"))>>
           \o [i \in 1..Len(fnd) |->
                  Str("- ") \o PathStr(fnd[i][1]) \o Str(":") \o Decimal(fnd[i][2])
                  \o Str(": ") \o fnd[i][3] \o <<LF>>]
           \o (IF fnd = <<>> THEN <<Str("No TODOs found.") \o <<LF>>>> ELSE <<>>))

\* the day the model's clock starts on; clock counts its seconds
\* now_stamp(): strftime("%Y-%m-%d_%H%M%S") of the local time
TwoDigits(n) == <<48 + (n \div 10), 48 + (n % 10)>>
\* a plausible slip: the stamp without its seconds, "%Y-%m-%d_%H%M"
NowStampMinutes(t) ==
    Str("2026-01-01_") \o TwoDigits((t \div 3600) % 24) \o TwoDigits((t \div 60) % 60)

now_stamp(t) ==
    Str("2026-01-01_") \o TwoDigits((t \div 3600) % 24) \o TwoDigits((t \div 60) % 60)
    \o TwoDigits(t % 60)

\* os.path.join(os.getcwd(), "context_out")
OutDir == Join(Cwd, Str("context_out"))

\* report_path(name, ext): {out_dir}/{name}_{now_stamp()}.{ext}
report_path(name, ext, t) == Join(OutDir, name \o Str("_") \o now_stamp(t) \o Str(".") \o ext)

\* main(["todo-scan", "--path", p]): args are parsed and cmd_todo_scan(args.path)
\* is entered: findings = [], and the iter_files(path) generator is made
MainStart(p) ==
    /\ mpc = "idle"
    /\ args' = Some([cmd |-> "todo-scan", path |-> p])
    /\ findings' = <<>>
    /\ out_parts' = <<>>
    /\ content' = None
    /\ out' = None
    /\ mpc' = "scan"
    /\ WalkStart(p, None)
    /\ UNCHANGED <<walks, clock, stdout, ret, bodies, handle, exits, loopVars, dispatchVars, fsVars, readVars, binVars>>

\* text = read_text_safe(fp) for the entry the generator has just yielded
TodoRead ==
    /\ mpc = "scan"
    /\ Val(args).cmd = "todo-scan"
    /\ wpc = "yielded"
    /\ ReadCall(yielded[Len(yielded)][1], DefaultMaxBytes)

\* if text is None: continue; else the lines with a match are appended to
\* findings; the loop then asks the generator for its next entry
TodoLines ==
    /\ mpc = "scan"
    /\ Val(args).cmd = "todo-scan"
    /\ wpc = "yielded"
    /\ rpc = "returned"
    /\ findings' = IF result = None THEN findings
                   ELSE findings \o FileFindings(yielded[Len(yielded)][2], Val(result))
    /\ rpc' = "idle"
    /\ wpc' = "files"
    /\ UNCHANGED <<path, max_bytes, size, f, data, result, exc, snap>>
    /\ UNCHANGED <<base, include_exts, stack, root, dirs, files, yielded, walks>>
    /\ UNCHANGED <<args, content, out, mpc, clock, stdout, ret, bodies, cmdVars, fsVars, binVars>>

\* the generator is exhausted: the body is joined and returned to main
TodoRender ==
    /\ mpc = "scan"
    /\ Val(args).cmd = "todo-scan"
    /\ wpc = "done"
    /\ content' = Some(TodoBody(Val(args).path, findings))
    /\ mpc' = "report_path"
    /\ UNCHANGED <<args, findings, out, clock, stdout, ret, bodies, cmdVars>>
    /\ UNCHANGED <<fsVars, readVars, binVars, walkVars>>

\* a plausible slip: the failure is reported, and main still returns 0
MainExceptReturns0 ==
    /\ stdout' = Append(stdout, Str("Encountered an unexpected error:"))
    /\ ret' = Append(ret, 0)
    /\ mpc' = "idle"

\* except Exception: print("Encountered an unexpected error:"); return 1
MainExcept ==
    /\ stdout' = Append(stdout, Str("Encountered an unexpected error:"))
    /\ ret' = Append(ret, 1)
    /\ mpc' = "idle"

\* out = report_path("todo-scan"): ensure_out_dir makes context_out unless it
\* is there (makedirs raises FileExistsError when it is there and no
\* directory), and the name is stamped with the time of this call
MainReportPath ==
    /\ mpc = "report_path"
    /\ IF Exists(OutDir) /\ ~EntryIsDir(OutDir)
       THEN /\ MainExcept
            /\ UNCHANGED <<out, fs, bodies>>
       ELSE /\ fs' = [p \in DOMAIN fs \cup {OutDir} |-> IF p = OutDir /\ ~Exists(p) THEN Dir ELSE fs[p]]
            /\ out' = Some(report_path(Str(Val(args).cmd), Str("md"), clock))
            /\ mpc' = "write"
            /\ UNCHANGED <<stdout, ret, bodies>>
    /\ UNCHANGED <<args, findings, content, clock, envSteps, cmdVars>>
    /\ UNCHANGED <<readVars, binVars, walkVars>>

\* a str UTF-8 can encode: no code point of it is a lone surrogate (os.walk
\* brings them in, for the bytes of a file name that do not decode)
Encodable(t) == \A i \in 1..Len(t) : t[i] \notin 55296..57343

\* what write_text(p, t) raises, if anything: open(p, "w") when p is a
\* directory, f.write(t) when t cannot be encoded
WriteTextError(p, t) ==
    IF Exists(p) /\ fs[p].kind # "file" THEN Some("IsADirectoryError")
    ELSE IF ~Encodable(t) THEN Some("UnicodeEncodeError")
    ELSE None

\* a plausible slip: the file opened for appending, "a" in place of "w"
WriteTextFsAppends(p, t, now) ==
    IF Exists(p) /\ fs[p].kind # "file" THEN fs
    ELSE [q \in DOMAIN fs \cup {p} |->
             IF q = p
             THEN [kind |-> "file",
                   data |-> (IF Exists(p) THEN fs[p].data ELSE <<>>)
                            \o (IF Encodable(t) THEN Utf8Encode(t) ELSE <<>>),
                   readable |-> IF Exists(p) THEN fs[p].readable ELSE TRUE,
                   mtime |-> now]
             ELSE fs[q]]

\* the filesystem after write_text(p, t) at time now: open(path, "w",
\* encoding="utf-8", newline="\n") truncates or creates the file, and write
\* puts the encoded text there, no character of it translated; when the text
\* cannot be encoded the file stays as open left it, empty
WriteTextFs(p, t, now) ==
    IF Exists(p) /\ fs[p].kind # "file" THEN fs
    ELSE [q \in DOMAIN fs \cup {p} |->
             IF q = p
             THEN [kind |-> "file",
                   data |-> IF Encodable(t) THEN Utf8Encode(t) ELSE <<>>,
                   readable |-> IF Exists(p) THEN fs[p].readable ELSE TRUE,
                   mtime |-> now]
             ELSE fs[q]]

\* write_text(out, content)
MainWrite ==
    /\ mpc = "write"
    /\ fs' = WriteTextFs(Val(out), Val(content), clock)
    /\ IF IsSome(WriteTextError(Val(out), Val(content)))
       THEN MainExcept
       ELSE /\ mpc' = "print"
            /\ UNCHANGED <<stdout, ret>>
    /\ UNCHANGED <<args, findings, content, out, clock, bodies, envSteps, cmdVars>>
    /\ UNCHANGED <<readVars, binVars, walkVars>>

\* print(out); return 0.  bodies keeps the subcommand, --path and the body of
\* every report written.
MainPrint ==
    /\ mpc = "print"
    /\ stdout' = Append(stdout, <<47>> \o PathStr(Val(out)))
    /\ ret' = Append(ret, 0)
    /\ bodies' = Append(bodies, [cmd |-> Val(args).cmd, path |-> Val(args).path,
                                  body |-> Val(content), out |-> Val(out), at |-> clock])
    /\ mpc' = "idle"
    /\ UNCHANGED <<args, findings, content, out, clock, cmdVars>>
    /\ UNCHANGED <<fsVars, readVars, binVars, walkVars>>

\* a second of local time passes; the clock is read by report_path alone, so
\* the seconds are let pass where it is about to be read
Tick(maxClock) ==
    /\ mpc = "report_path"
    /\ clock < maxClock
    /\ clock' = clock + 1
    /\ UNCHANGED <<args, findings, content, out, mpc, stdout, ret, bodies, cmdVars>>
    /\ UNCHANGED <<fsVars, readVars, binVars, walkVars>>

----------------------------------------------------------------------------
(* json.loads, as cmd_json_schema_extract uses it.  A parse is a record: ok, *)
(* pos (the index after what was read) and val; a value is its type's name   *)
(* t and its items: <<key, value>> pairs for a dict, values for a list.      *)

JsonFail == [ok |-> FALSE, pos |-> 0, val |-> <<>>]
JsonOk(i, v) == [ok |-> TRUE, pos |-> i, val |-> v]
JsonScalar(name) == [t |-> name, items |-> <<>>]

\* the whitespace json skips
JsonWs == {32, 9, 10, 13}

Digits == 48..57

\* t has the literal lit at i
HasAt(t, i, lit) == i + Len(lit) - 1 <= Len(t) /\ SubSeq(t, i, i + Len(lit) - 1) = lit

\* the character an escape \c stands for
Unescape(c) ==
    CASE c = 98 -> 8 [] c = 102 -> 12 [] c = 110 -> 10 [] c = 114 -> 13 [] c = 116 -> 9
      [] OTHER -> c

HexVal(c) == IF c \in Digits THEN c - 48 ELSE IF c \in 65..70 THEN c - 55 ELSE c - 87

IsHex(c) == c \in Digits \/ c \in 65..70 \/ c \in 97..102

\* the characters of a string from k on, up to its closing quote; acc is what
\* was read of it.  (A \u escape gives its code unit; the texts here have no
\* surrogate pairs.)
RECURSIVE JsonChars(_, _, _)
JsonChars(t, k, acc) ==
    IF k > Len(t) THEN JsonFail
    ELSE IF t[k] = 34 THEN JsonOk(k + 1, acc)
    ELSE IF t[k] = 92
         THEN IF k + 1 > Len(t) THEN JsonFail
              ELSE IF t[k + 1] \in {34, 92, 47, 98, 102, 110, 114, 116}
                   THEN JsonChars(t, k + 2, Append(acc, Unescape(t[k + 1])))
              ELSE IF t[k + 1] = 117 /\ k + 5 <= Len(t)
                      /\ \A j \in (k + 2)..(k + 5) : IsHex(t[j])
                   THEN JsonChars(t, k + 6,
                           Append(acc, 4096 * HexVal(t[k + 2]) + 256 * HexVal(t[k + 3])
                                       + 16 * HexVal(t[k + 4]) + HexVal(t[k + 5])))
              ELSE JsonFail
    ELSE IF t[k] < 32 THEN JsonFail
    ELSE JsonChars(t, k + 1, Append(acc, t[k]))

\* NUMBER_RE at i: (-?(?:0|[1-9]\d*))(\.\d+)?([eE][-+]?\d+)?, the longest match
JsonNumber(t, i) ==
    LET d == IF i <= Len(t) /\ t[i] = 45 THEN i + 1 ELSE i
        intEnd == IF d > Len(t) \/ t[d] \notin Digits THEN 0
                  ELSE IF t[d] = 48 THEN d + 1
                  ELSE SkipWhile(t, d, Digits)
        fracEnd == IF intEnd # 0 /\ intEnd < Len(t) /\ t[intEnd] = 46 /\ t[intEnd + 1] \in Digits
                   THEN SkipWhile(t, intEnd + 1, Digits) ELSE intEnd
        sign == IF fracEnd # 0 /\ fracEnd < Len(t) /\ t[fracEnd] \in {69, 101}
                   /\ t[fracEnd + 1] \in {43, 45}
                THEN fracEnd + 2 ELSE fracEnd + 1
        expEnd == IF fracEnd # 0 /\ fracEnd <= Len(t) /\ t[fracEnd] \in {69, 101}
                     /\ sign <= Len(t) /\ t[sign] \in Digits
                  THEN SkipWhile(t, sign, Digits) ELSE fracEnd
    IN  IF intEnd = 0 THEN JsonFail
        ELSE JsonOk(expEnd, JsonScalar(IF expEnd = intEnd THEN "int" ELSE "float"))

RECURSIVE JsonValue(_, _)
RECURSIVE JsonMembers(_, _, _)
RECURSIVE JsonElements(_, _, _)

\* scan_once(t, i): the value that begins at i
JsonValue(t, i) ==
    IF i > Len(t) THEN JsonFail
    ELSE IF t[i] = 34
         THEN LET r == JsonChars(t, i + 1, <<>>)
              IN  IF r.ok THEN JsonOk(r.pos, JsonScalar("str")) ELSE JsonFail
    ELSE IF t[i] = 123
         THEN LET j == SkipWhile(t, i + 1, JsonWs)
              IN  IF j <= Len(t) /\ t[j] = 125 THEN JsonOk(j + 1, JsonScalar("dict"))
                  ELSE JsonMembers(t, j, <<>>)
    ELSE IF t[i] = 91
         THEN LET j == SkipWhile(t, i + 1, JsonWs)
              IN  IF j <= Len(t) /\ t[j] = 93 THEN JsonOk(j + 1, JsonScalar("list"))
                  ELSE JsonElements(t, j, <<>>)
    ELSE IF HasAt(t, i, Str("null")) THEN JsonOk(i + 4, JsonScalar("NoneType"))
    ELSE IF HasAt(t, i, Str("true")) THEN JsonOk(i + 4, JsonScalar("bool"))
    ELSE IF HasAt(t, i, Str("false")) THEN JsonOk(i + 5, JsonScalar("bool"))
    ELSE IF JsonNumber(t, i).ok THEN JsonNumber(t, i)
    ELSE IF HasAt(t, i, Str("NaN")) THEN JsonOk(i + 3, JsonScalar("float"))
    ELSE IF HasAt(t, i, Str("Infinity")) THEN JsonOk(i + 8, JsonScalar("float"))
    ELSE IF HasAt(t, i, Str("-Infinity")) THEN JsonOk(i + 9, JsonScalar("float"))
    ELSE JsonFail

\* the members of an object from the key at i on; acc holds those read
JsonMembers(t, i, acc) ==
    IF i > Len(t) \/ t[i] # 34 THEN JsonFail
    ELSE LET k == JsonChars(t, i + 1, <<>>)
             colon == IF k.ok THEN SkipWhile(t, k.pos, JsonWs) ELSE 0
             v == IF k.ok /\ colon <= Len(t) /\ t[colon] = 58
                  THEN JsonValue(t, SkipWhile(t, colon + 1, JsonWs)) ELSE JsonFail
             next == IF v.ok THEN SkipWhile(t, v.pos, JsonWs) ELSE 0
         IN  IF ~v.ok \/ next > Len(t) THEN JsonFail
             ELSE IF t[next] = 125
                  THEN JsonOk(next + 1, [t |-> "dict", items |-> Append(acc, <<k.val, v.val>>)])
             ELSE IF t[next] = 44
                  THEN JsonMembers(t, SkipWhile(t, next + 1, JsonWs), Append(acc, <<k.val, v.val>>))
             ELSE JsonFail

\* the elements of an array from the value at i on; acc holds those read
JsonElements(t, i, acc) ==
    LET v == JsonValue(t, i)
        next == IF v.ok THEN SkipWhile(t, v.pos, JsonWs) ELSE 0
    IN  IF ~v.ok \/ next > Len(t) THEN JsonFail
        ELSE IF t[next] = 93
             THEN JsonOk(next + 1, [t |-> "list", items |-> Append(acc, v.val)])
        ELSE IF t[next] = 44
             THEN JsonElements(t, SkipWhile(t, next + 1, JsonWs), Append(acc, v.val))
        ELSE JsonFail

\* json.loads(text): the value, or no value when JSONDecodeError is raised:
\* whitespace, one value, whitespace, and nothing more
JsonLoads(text) ==
    LET v == JsonValue(text, SkipWhile(text, 1, JsonWs))
    IN  IF v.ok /\ SkipWhile(text, v.pos, JsonWs) = Len(text) + 1 THEN Some(v.val) ELSE None

\* dict(pairs): a key keeps the place of its first pair and the value of its last
DictItems(pairs) ==
    LET firsts == SelectSeq([i \in 1..Len(pairs) |-> i],
                            LAMBDA i : \A j \in 1..(i - 1) : pairs[j][1] # pairs[i][1])
        last(k) == CHOOSE i \in 1..Len(pairs) :
                      pairs[i][1] = k /\ \A j \in (i + 1)..Len(pairs) : pairs[j][1] # k
    IN  [n \in 1..Len(firsts) |-> <<pairs[firsts[n]][1], pairs[last(pairs[firsts[n]][1])][2]>>]

\* walk(x, prefix) of cmd_json_schema_extract: the assignments schema[k] = v
\* it makes, in their order, as <<k, v>>
RECURSIVE SchemaWalk(_, _)
RECURSIVE SchemaMembers(_, _)
SchemaWalk(x, prefix) ==
    IF x.t = "dict" THEN SchemaMembers(DictItems(x.items), prefix)
    ELSE IF x.t = "list" /\ x.items # <<>>
         THEN << <<prefix \o Str("[]"), x.items[1].t>> >>
              \o SchemaWalk(x.items[1], prefix \o Str("[]"))
    ELSE <<>>

SchemaMembers(items, prefix) ==
    IF items = <<>> THEN <<>>
    ELSE LET k == prefix \o Str(".") \o items[1][1]
         IN  << <<k, items[1][2].t>> >> \o SchemaWalk(items[1][2], k)
             \o SchemaMembers(Tail(items), prefix)

\* a < b for two str, as Python orders them
RECURSIVE StrLess(_, _)
StrLess(a, b) ==
    IF b = <<>> THEN FALSE
    ELSE IF a = <<>> THEN TRUE
    ELSE IF a[1] # b[1] THEN a[1] < b[1]
    ELSE StrLess(Tail(a), Tail(b))

\* sorted(keys)
RECURSIVE SortedStrs(_)
SortedStrs(keys) ==
    IF keys = {} THEN <<>>
    ELSE LET least == CHOOSE k \in keys : \A l \in keys \ {k} : StrLess(k, l)
         IN  <<least>> \o SortedStrs(keys \ {least})

\* the lines for one file: for k, v in sorted(schema.items()): "- {k}: {v}\n"
SchemaLines(x) ==
    LET assigned == SchemaWalk(x, Str("$"))
        keys == SortedStrs({assigned[i][1] : i \in 1..Len(assigned)})
        typeOf(k) == assigned[CHOOSE i \in 1..Len(assigned) :
                                 assigned[i][1] = k
                                 /\ \A j \in (i + 1)..Len(assigned) : assigned[j][1] # k][2]
    IN  [n \in 1..Len(keys) |-> Str("- ") \o keys[n] \o Str(": ") \o Str(typeOf(keys[n])) \o <<LF>>]

----------------------------------------------------------------------------
(* The command handlers.  Each is entered from main's dispatch with the    *)
(* arguments argparse has parsed, drives one iter_files generator and      *)
(* returns its body to main.                                               *)

\* a plausible slip: the output directory made on entry, before the handler
\* has done anything
HandlerStartMakesOutDir(a, exts, first) ==
    /\ mpc = "idle"
    /\ args' = Some(a)
    /\ findings' = <<>>
    /\ out_parts' = first
    /\ content' = None
    /\ out' = None
    /\ mpc' = "scan"
    /\ WalkStart(a.path, exts)
    /\ fs' = [p \in DOMAIN fs \cup {OutDir} |-> IF p \in DOMAIN fs THEN fs[p] ELSE Dir]
    /\ UNCHANGED <<walks, clock, stdout, ret, bodies, handle, exits, loopVars, dispatchVars, envSteps, readVars, binVars>>

\* the handler of a.cmd is entered with the parsed arguments a: its out list
\* starts as first, and its loop creates the generator
\* iter_files(a.path, include_exts=exts)
HandlerStart(a, exts, first) ==
    /\ mpc = "idle"
    /\ args' = Some(a)
    /\ findings' = <<>>
    /\ out_parts' = first
    /\ content' = None
    /\ out' = None
    /\ mpc' = "scan"
    /\ WalkStart(a.path, exts)
    /\ UNCHANGED <<walks, clock, stdout, ret, bodies, handle, exits, loopVars, dispatchVars, fsVars, readVars, binVars>>

\* the handler raises before its loop: main's except clause takes over
HandlerRaise(a) ==
    /\ mpc = "idle"
    /\ args' = Some(a)
    /\ MainExcept
    /\ UNCHANGED <<findings, content, out, clock, bodies, cmdVars>>
    /\ UNCHANGED <<fsVars, readVars, binVars, walkVars>>

\* the handler running is c, and its loop has the entry just yielded
AtEntry(c) == mpc = "scan" /\ Val(args).cmd = c /\ wpc = "yielded"
Entry == yielded[Len(yielded)]

\* the loop body is done with the entry (or continues): next(generator)
NextEntry ==
    /\ wpc' = "files"
    /\ UNCHANGED <<base, include_exts, stack, root, dirs, files, yielded, walks>>

\* the loop is over: return "".join(out)
HandlerReturn(c, outl) ==
    /\ mpc = "scan" /\ Val(args).cmd = c /\ wpc = "done"
    /\ out_parts' = outl
    /\ content' = Some(Concat(outl))
    /\ mpc' = "report_path"
    /\ UNCHANGED <<args, findings, out, clock, stdout, ret, bodies, handle, exits, loopVars, dispatchVars>>
    /\ UNCHANGED <<fsVars, readVars, binVars, walkVars>>

\* what open(p) for reading raises, if anything
OpenError(p) ==
    IF ~Exists(p) THEN Some("FileNotFoundError")
    ELSE IF fs[p].kind # "file" THEN Some("IsADirectoryError")
    ELSE IF ~fs[p].readable THEN Some("PermissionError")
    ELSE None

\* str(e) of the OSError that open(p) raised: [Errno n] strerror: 'p'
OSErrorStr(e, p) ==
    (CASE e = "FileNotFoundError" -> Str("[Errno 2] No such file or directory: ")
       [] e = "PermissionError" -> Str("[Errno 13] Permission denied: ")
       [] e = "IsADirectoryError" -> Str("[Errno 21] Is a directory: "))
    \o <<39, 47>> \o PathStr(p) \o <<39>>

\* cmd_csv_summary(args.path): out = [md_h1("CSV Summary")]
CsvSummaryStart(p) ==
    HandlerStart([cmd |-> "csv-summary", path |-> p], Some({Str(".csv")}),
                 <<md_h1(Str("CSV Summary"))>>)

\* with open(fp, newline='', encoding='utf-8', errors='replace') as f; an
\* exception is caught in the loop: out.append("- {rel}: error {e}\n")
CsvSummaryOpen ==
    /\ AtEntry("csv-summary")
    /\ handle = None
    /\ LET e == OpenError(Entry[1])
       IN  IF IsSome(e)
           THEN /\ out_parts' = Append(out_parts,
                       Str("- ") \o PathStr(Entry[2]) \o Str(": error ")
                       \o OSErrorStr(Val(e), Entry[1]) \o <<LF>>)
                /\ NextEntry
                /\ UNCHANGED handle
           ELSE /\ handle' = Some(Entry[1])
                /\ UNCHANGED <<out_parts, walkVars>>
    /\ UNCHANGED <<args, findings, content, out, mpc, clock, stdout, ret, bodies, exits, loopVars, dispatchVars>>
    /\ UNCHANGED <<fsVars, readVars, binVars>>

\* for r in csv.reader(f): rows += 1; cols = max(cols, len(r)); f is closed
\* and out.append("- {rel}: {rows} rows, {cols} columns\n")
CsvSummaryRows ==
    /\ AtEntry("csv-summary")
    /\ IsSome(handle)
    /\ LET n == CsvCount(Utf8DecodeReplace(fs[Val(handle)].data))
       IN  out_parts' = Append(out_parts,
               Str("- ") \o PathStr(Entry[2]) \o Str(": ") \o Decimal(n.rows)
               \o Str(" rows, ") \o Decimal(n.cols) \o Str(" columns") \o <<LF>>)
    /\ handle' = None
    /\ NextEntry
    /\ UNCHANGED <<args, findings, content, out, mpc, clock, stdout, ret, bodies, exits, loopVars, dispatchVars>>
    /\ UNCHANGED <<fsVars, readVars, binVars>>

\* if len(out) == 1: out.append("No CSV files found.\n")
CsvSummaryReturn ==
    /\ wpc = "done"
    /\ HandlerReturn("csv-summary",
        IF Len(out_parts) = 1
        THEN Append(out_parts, Str("No CSV files found.") \o <<LF>>)
        ELSE out_parts)

\* sorted(items, key=..., reverse=True) where keys are numbers: the greatest
\* key first, and items of equal key in the order they had (the sort is
\* stable, reversed or not).  An item is <<key, value>>.
RECURSIVE SortedDesc(_)
SortedDesc(items) ==
    IF items = <<>> THEN <<>>
    ELSE LET first == CHOOSE i \in 1..Len(items) :
                          /\ \A j \in 1..Len(items) : items[j][1] <= items[i][1]
                          /\ \A j \in 1..(i - 1) : items[j][1] < items[i][1]
         IN  <<items[first]>>
             \o SortedDesc(SubSeq(items, 1, first - 1) \o SubSeq(items, first + 1, Len(items)))

\* --days as argparse's type=int hands it over is an int of any size; the
\* model keeps it as its decimal digits
IntOf(d) == IF Len(d) = 1 THEN d[1] - 48 ELSE 0 - 1
\* days * 86400 is too large for a float (2^1024 and up): every number of
\* more than 304 digits, none of fewer
MaxFloatDigits == 304
FloatOverflow(d) == Len(d) > MaxFloatDigits
SecondsPerDay == 86400

\* datetime.fromtimestamp(t).isoformat(), t in whole seconds of the model's day
isoformat(t) ==
    Str("2026-01-01T") \o TwoDigits((t \div 3600) % 24) \o Str(":")
    \o TwoDigits((t \div 60) % 60) \o Str(":") \o TwoDigits(t % 60)

\* cmd_recent_files_report(args.path, args.days):
\* cutoff = time.time() - days * 86400 raises OverflowError when the product
\* cannot be a float; else out = [md_h1(...), "Window: last {days} days\n\n"]
RecentFilesStart(p, d) ==
    LET a == [cmd |-> "recent-files-report", path |-> p, days |-> d]
    IN  IF FloatOverflow(d)
        THEN HandlerRaise(a)
        ELSE HandlerStart(a, None,
                 <<md_h1(Str("Recent Files Report")),
                   Str("Window: last ") \o d \o Str(" days") \o <<LF, LF>>>>)

\* mtime = os.path.getmtime(fp); if mtime >= cutoff: items.append((rel, ts));
\* findings holds items, each with its mtime as the key ts sorts by
RecentFilesEntry ==
    /\ AtEntry("recent-files-report")
    /\ LET mtime == fs[Entry[1]].mtime
           cutoff == clock - IntOf(Val(args).days) * SecondsPerDay
       IN  findings' = IF mtime >= cutoff
                       THEN Append(findings, <<mtime, <<Entry[2], isoformat(mtime)>>>>)
                       ELSE findings
    /\ NextEntry
    /\ UNCHANGED <<args, content, out, mpc, clock, stdout, ret, bodies, cmdVars>>
    /\ UNCHANGED <<fsVars, readVars, binVars>>

\* the items, newest first, one line each; or the fallback line
RecentFilesReturn ==
    /\ wpc = "done"
    /\ HandlerReturn("recent-files-report",
          out_parts
          \o [i \in 1..Len(findings) |->
                 LET it == SortedDesc(findings)[i][2]
                 IN  Str("- ") \o PathStr(it[1]) \o Str(": ") \o it[2] \o <<LF>>]
          \o (IF findings = <<>>
              THEN <<Str("No files modified in the given window.") \o <<LF>>>>
              ELSE <<>>))

\* cmd_changelog_summary(args.path) begins with
\* _read_first_md(path, "changelog*.md"), which loops over
\* iter_files(path, include_exts={".md"})
ChangelogStart(p) ==
    HandlerStart([cmd |-> "changelog-summary", path |-> p], Some({Str(".md")}), <<>>)

\* if fnmatch.fnmatch(os.path.basename(fp).lower(), pat): no match, next entry
ChangelogSkip ==
    /\ AtEntry("changelog-summary")
    /\ rpc = "idle"
    /\ ~FnMatchStar(Lower(Entry[1][Len(Entry[1])]), Str("changelog"), Str(".md"))
    /\ NextEntry
    /\ UNCHANGED <<mainVars, fsVars, readVars, binVars>>

\* a match: text = read_text_safe(fp)
ChangelogRead ==
    /\ AtEntry("changelog-summary")
    /\ FnMatchStar(Lower(Entry[1][Len(Entry[1])]), Str("changelog"), Str(".md"))
    /\ ReadCall(Entry[1], DefaultMaxBytes)

\* if text: return rel, text (the generator is dropped); else the loop goes on.
\* findings holds what _read_first_md returned.
ChangelogText ==
    /\ AtEntry("changelog-summary")
    /\ rpc = "returned"
    /\ IF IsSome(result) /\ Val(result) # <<>>
       THEN /\ findings' = <<Entry[2], Val(result)>>
            /\ wpc' = "done"
            /\ UNCHANGED <<base, include_exts, stack, root, dirs, files, yielded, walks>>
       ELSE /\ NextEntry
            /\ UNCHANGED findings
    /\ rpc' = "idle"
    /\ UNCHANGED <<path, max_bytes, size, f, data, result, exc, snap>>
    /\ UNCHANGED <<args, content, out, mpc, clock, stdout, ret, bodies, cmdVars, fsVars, binVars>>

\* the body: the heading; the fallback when nothing was found; else the name
\* of the file and its ten first headings, or "No headings found."
ChangelogBody(found) ==
    <<md_h1(Str("Changelog Summary"))>>
    \o (IF found = <<>>
        THEN <<Str("No CHANGELOG.md found.") \o <<LF>>>>
        ELSE LET heads == FindHeadings(found[2], 1)
             IN  <<md_h2(PathStr(found[1]))>>
                 \o [i \in 1..Min(Len(heads), MaxHeads) |->
                        Str("- ") \o HeadingText(heads[i]) \o <<LF>>]
                 \o (IF heads = <<>> THEN <<Str("No headings found.") \o <<LF>>>> ELSE <<>>))

ChangelogReturn ==
    /\ wpc = "done"
    /\ HandlerReturn("changelog-summary", ChangelogBody(findings))

\* os.path.dirname(rel), "" for a file of the root itself
\* a plausible slip: the directory taken to be the first component of rel, so
\* that a directory's size takes in its subdirectories
DirnameTop(rel) == PathStr(SubSeq(rel, 1, Min(1, Len(rel) - 1)))

Dirname(rel) == PathStr(SubSeq(rel, 1, Len(rel) - 1))

\* os.path.getsize(fp), 0 when it raises
SizeOrZero(p) == IF Exists(p) THEN CHOOSE n \in StSize(p) : TRUE ELSE 0

\* sizes[d] += size on a dict that keeps its keys in the order they came:
\* an item is <<size, d>>
AddSize(sizes, d, n) ==
    IF \E i \in 1..Len(sizes) : sizes[i][2] = d
    THEN [i \in 1..Len(sizes) |->
             IF sizes[i][2] = d THEN <<sizes[i][1] + n, d>> ELSE sizes[i]]
    ELSE Append(sizes, <<n, d>>)

\* cmd_dir_size_report(args.path): sizes = defaultdict(int)
DirSizeStart(p) ==
    HandlerStart([cmd |-> "dir-size-report", path |-> p], None, <<>>)

\* size = os.path.getsize(fp); sizes[os.path.dirname(rel)] += size;
\* findings holds sizes
DirSizeEntry ==
    /\ AtEntry("dir-size-report")
    /\ findings' = AddSize(findings, Dirname(Entry[2]), SizeOrZero(Entry[1]))
    /\ NextEntry
    /\ UNCHANGED <<args, content, out, mpc, clock, stdout, ret, bodies, cmdVars>>
    /\ UNCHANGED <<fsVars, readVars, binVars>>

\* out = [md_h1(...)], then a line for each directory, the largest first;
\* there is no line for the case that no file was seen
\* another process deletes the file the generator has just yielded, before
\* its size is looked up: os.path.getsize raises, and size = 0
EnvUnlinkYielded ==
    /\ AtEntry("dir-size-report")
    /\ "unlink" \notin envSteps
    /\ IsFile(Entry[1])
    /\ fs' = [p \in DOMAIN fs \ {Entry[1]} |-> fs[p]]
    /\ envSteps' = envSteps \cup {"unlink"}
    /\ UNCHANGED <<readVars, binVars, walkVars, mainVars>>

DirSizeReturn ==
    /\ wpc = "done"
    /\ HandlerReturn("dir-size-report",
          <<md_h1(Str("Directory Size Report"))>>
          \o [i \in 1..Len(findings) |->
                 LET it == SortedDesc(findings)[i]
                 IN  Str("- ") \o (IF it[2] = <<>> THEN Str(".") ELSE it[2]) \o Str(": ")
                     \o Decimal(it[1]) \o Str(" bytes") \o <<LF>>])

\* cmd_file_index(args.path): out = [md_h1("File Index")]
FileIndexStart(p) ==
    HandlerStart([cmd |-> "file-index", path |-> p], None, <<md_h1(Str("File Index"))>>)

\* out.append("- {rel} — {size} bytes\n"), the size 0 when getsize raises
FileIndexEntry ==
    /\ AtEntry("file-index")
    /\ out_parts' = Append(out_parts,
           Str("- ") \o PathStr(Entry[2]) \o <<32, 8212, 32>>
           \o Decimal(SizeOrZero(Entry[1])) \o Str(" bytes") \o <<LF>>)
    /\ NextEntry
    /\ UNCHANGED <<args, findings, content, out, mpc, clock, stdout, ret, bodies, handle, exits, loopVars, dispatchVars>>
    /\ UNCHANGED <<fsVars, readVars, binVars>>

\* return "".join(out): there is no line for the case that no file was seen
FileIndexReturn ==
    /\ wpc = "done"
    /\ HandlerReturn("file-index", out_parts)

\* md_codeblock(code, lang): the fence, the language, the code on lines of its
\* own and the closing fence; the code goes in as it is
md_codeblock(code, lang) ==
    <<96, 96, 96>> \o lang \o <<LF>> \o code \o <<LF>> \o <<96, 96, 96>> \o <<LF, LF>>

\* cmd_txt_to_md: out = [md_h1("Text to Markdown")], the loop over the .txt files
TxtToMdStart(p) ==
    HandlerStart([cmd |-> "txt-to-md", path |-> p], Some({Str(".txt")}),
                 <<md_h1(Str("Text to Markdown"))>>)

\* text = read_text_safe(fp)
TxtToMdRead ==
    /\ AtEntry("txt-to-md")
    /\ ReadCall(Entry[1], DefaultMaxBytes)

\* if not text: continue; else the file's heading and its text in a code block
TxtToMdText ==
    /\ AtEntry("txt-to-md")
    /\ rpc = "returned"
    /\ out_parts' = IF IsSome(result) /\ Val(result) # <<>>
                    THEN out_parts \o <<md_h2(PathStr(Entry[2])), md_codeblock(Val(result), <<>>)>>
                    ELSE out_parts
    /\ NextEntry
    /\ rpc' = "idle"
    /\ UNCHANGED <<path, max_bytes, size, f, data, result, exc, snap>>
    /\ UNCHANGED <<args, findings, content, out, mpc, clock, stdout, ret, bodies, handle, exits, loopVars, dispatchVars>>
    /\ UNCHANGED <<fsVars, binVars>>

\* if len(out) == 1: out.append("No text files found.\n"); return "".join(out)
TxtToMdReturn ==
    /\ wpc = "done"
    /\ HandlerReturn("txt-to-md",
          IF Len(out_parts) = 1
          THEN Append(out_parts, Str("No text files found.") \o <<LF>>)
          ELSE out_parts)

\* cmd_json_schema_extract(args.path, args.max_files): out starts with the
\* heading, count with 0 (findings holds the files counted)
JsonSchemaStart(p, mf) ==
    HandlerStart([cmd |-> "json-schema-extract", path |-> p, max_files |-> mf],
                 Some({Str(".json")}), <<md_h1(Str("JSON Schema Extract (heuristic)"))>>)

\* if count >= max_files: break
JsonSchemaBreak ==
    /\ AtEntry("json-schema-extract")
    /\ rpc = "idle"
    /\ Len(findings) >= Val(args).max_files
    /\ wpc' = "done"
    /\ UNCHANGED <<base, include_exts, stack, root, dirs, files, yielded, walks>>
    /\ UNCHANGED <<mainVars, fsVars, readVars, binVars>>

\* text = read_text_safe(fp)
JsonSchemaRead ==
    /\ AtEntry("json-schema-extract")
    /\ Len(findings) < Val(args).max_files
    /\ ReadCall(Entry[1], DefaultMaxBytes)

\* if not text: continue; json.loads(text), and continue when it raises; else
\* the file's heading and the lines of its schema, and count += 1
JsonSchemaText ==
    /\ AtEntry("json-schema-extract")
    /\ rpc = "returned"
    /\ LET loaded == IF IsSome(result) /\ Val(result) # <<>>
                     THEN JsonLoads(Val(result)) ELSE None
       IN  IF IsSome(loaded)
           THEN /\ out_parts' = out_parts \o <<md_h2(PathStr(Entry[2]))>>
                                \o SchemaLines(Val(loaded))
                /\ findings' = Append(findings, Entry[2])
           ELSE UNCHANGED <<out_parts, findings>>
    /\ NextEntry
    /\ rpc' = "idle"
    /\ UNCHANGED <<path, max_bytes, size, f, data, result, exc, snap>>
    /\ UNCHANGED <<args, content, out, mpc, clock, stdout, ret, bodies, handle, exits, loopVars, dispatchVars>>
    /\ UNCHANGED <<fsVars, binVars>>

\* if len(out) == 1: out.append("No JSON files found.\n"); return "".join(out)
JsonSchemaReturn ==
    /\ wpc = "done"
    /\ HandlerReturn("json-schema-extract",
          IF Len(out_parts) = 1
          THEN Append(out_parts, Str("No JSON files found.") \o <<LF>>)
          ELSE out_parts)

\* the characters of the class [\w\-./?%&=#:]
UrlChars == WordChars \cup {45, 46, 47, 63, 37, 38, 61, 35, 58}

\* the literal parts of the pattern
SchemeHttp == Str("http")
SchemeHttps == Str("https")
SchemeEnd == Str("://")

\* where the pattern https?://[\w\-./?%&=#:]+, letters in either case, matches
\* from i: the index after the match, 0 for no match
UrlEnd(t, i) ==
    LET s == IF HasAt(Lower(t), i, SchemeHttps) THEN i + 5
             ELSE IF HasAt(Lower(t), i, SchemeHttp) THEN i + 4 ELSE 0
    IN  IF s # 0 /\ HasAt(t, s, SchemeEnd) /\ s + 3 <= Len(t) /\ t[s + 3] \in UrlChars
        THEN SkipWhile(t, s + 3, UrlChars) ELSE 0

\* url_re.findall(text) from pos on: the matches, left to right, none
\* overlapping another
RECURSIVE FindUrls(_, _)
FindUrls(t, pos) ==
    IF pos > Len(t) THEN <<>>
    ELSE IF UrlEnd(t, pos) # 0
         THEN <<SubSeq(t, pos, UrlEnd(t, pos) - 1)>> \o FindUrls(t, UrlEnd(t, pos))
    ELSE FindUrls(t, pos + 1)

\* sorted(l), the equal ones kept
RECURSIVE SortedList(_)
SortedList(l) ==
    IF l = <<>> THEN <<>>
    ELSE LET least == CHOOSE i \in 1..Len(l) : \A j \in 1..Len(l) : ~StrLess(l[j], l[i])
         IN  <<l[least]>> \o SortedList(SubSeq(l, 1, least - 1) \o SubSeq(l, least + 1, Len(l)))

\* a plausible slip: the set left out, sorted(url_re.findall(text))
FileUrlsRepeated(text) == SortedList(FindUrls(text, 1))

\* sorted(set(url_re.findall(text)))
FileUrls(text) ==
    SortedStrs({FindUrls(text, 1)[i] : i \in 1..Len(FindUrls(text, 1))})

\* what the network does with a HEAD request: urlopen returns a response, or
\* raises (HTTPError for an error status, URLError, a timeout)
Response(status, reason) == [raised |-> FALSE, status |-> status, text |-> reason]
Raised(text) == [raised |-> TRUE, status |-> 0, text |-> text]
Outcomes ==
    {Response(200, Str("OK")), Raised(Str("HTTP Error 404: Not Found")),
     Raised(Str("<urlopen error timed out>"))}

\* _http_head(url), the network answering with o: (resp.status, resp.reason),
\* or (0, str(e))
http_head(o) == IF o.raised THEN <<0, o.text>> ELSE <<o.status, o.text>>

\* cmd_link_check_md(args.path, args.offline): results = [] (findings holds it)
LinkCheckStart(p, offline) ==
    HandlerStart([cmd |-> "link-check-md", path |-> p, offline |-> offline],
                 Some({Str(".md")}), <<>>)

\* text = read_text_safe(fp)
LinkCheckRead ==
    /\ AtEntry("link-check-md")
    /\ urls = <<>>
    /\ ReadCall(Entry[1], DefaultMaxBytes)

\* if not text: continue; urls = set(url_re.findall(text)), and the loop over
\* sorted(urls) begins
LinkCheckText ==
    /\ AtEntry("link-check-md")
    /\ rpc = "returned"
    /\ urls' = IF IsSome(result) THEN FileUrls(Val(result)) ELSE <<>>
    /\ IF urls' = <<>>
       THEN NextEntry
       ELSE UNCHANGED walkVars
    /\ rpc' = "idle"
    /\ UNCHANGED <<path, max_bytes, size, f, data, result, exc, snap>>
    /\ UNCHANGED <<args, findings, content, out, mpc, clock, stdout, ret, bodies>>
    /\ UNCHANGED <<out_parts, handle, exits, requests, spans, dispatchVars, fsVars, binVars>>

\* the loop's body is over for one URL: the next one, or the next file
NextUrl ==
    /\ urls' = Tail(urls)
    /\ IF Tail(urls) = <<>> THEN NextEntry ELSE UNCHANGED walkVars

\* if offline: results.append((rel, url, 0, "offline"))
LinkCheckOffline ==
    /\ AtEntry("link-check-md")
    /\ urls # <<>>
    /\ Val(args).offline
    /\ findings' = Append(findings, <<Entry[2], Head(urls), 0, Str("offline")>>)
    /\ NextUrl
    /\ UNCHANGED <<args, content, out, mpc, clock, stdout, ret, bodies>>
    /\ UNCHANGED <<out_parts, handle, exits, requests, spans, dispatchVars, fsVars, readVars, binVars>>

\* else: status, reason = _http_head(url); results.append((rel, url, status,
\* reason)); time.sleep(0.05)
LinkCheckHead ==
    /\ AtEntry("link-check-md")
    /\ urls # <<>>
    /\ ~Val(args).offline
    /\ \E o \in Outcomes :
          /\ requests' = Append(requests, [url |-> Head(urls), outcome |-> o])
          /\ findings' = Append(findings,
                            <<Entry[2], Head(urls), http_head(o)[1], http_head(o)[2]>>)
    /\ NextUrl
    /\ UNCHANGED <<args, content, out, mpc, clock, stdout, ret, bodies>>
    /\ UNCHANGED <<out_parts, handle, exits, spans, dispatchVars, fsVars, readVars, binVars>>

\* out = [md_h1(...), "Mode: ...\n\n"], a line for each result, or the line
\* for none; return "".join(out)
LinkCheckReturn ==
    /\ wpc = "done"
    /\ HandlerReturn("link-check-md",
          <<md_h1(Str("Markdown Link Check")),
            Str("Mode: ") \o (IF Val(args).offline THEN Str("offline") ELSE Str("online"))
            \o <<LF, LF>>>>
          \o [i \in 1..Len(findings) |->
                 Str("- ") \o PathStr(findings[i][1]) \o Str(": ") \o findings[i][2]
                 \o <<32, 8212, 32>> \o Decimal(findings[i][3]) \o Str(" ")
                 \o findings[i][4] \o <<LF>>]
          \o (IF findings = <<>>
              THEN <<Str("No links found in Markdown files.") \o <<LF>>>> ELSE <<>>))

----------------------------------------------------------------------------
(* many-params-scan.  ast.parse is modelled on the Python of the files      *)
(* scanned here: lines that begin with def and end with pass, of the form   *)
(* def NAME(PARAMS): pass, a parameter being NAME, *NAME, **NAME or *, the  *)
(* names no keywords.                                                       *)

\* t.split(c)
RECURSIVE SplitOn(_, _)
SplitOn(t, c) ==
    LET k == SkipUntil(t, 1, {c})
    IN  IF k > Len(t) THEN <<t>>
        ELSE <<SubSeq(t, 1, k - 1)>> \o SplitOn(SubSeq(t, k + 1, Len(t)), c)

\* the characters of a name, and those one may begin with
NameChars == (48..57) \cup (65..90) \cup (97..122) \cup {95}
IsName(t) == t # <<>> /\ t[1] \notin 48..57 /\ \A i \in 1..Len(t) : t[i] \in NameChars

\* one parameter as written, the spaces before it dropped: its stars and name
Param(t) ==
    LET from == SkipWhile(t, 1, {32})
        name == SkipWhile(t, from, {42})
    IN  [stars |-> name - from, name |-> SubSeq(t, name, Len(t))]

\* the parameters as written between the parentheses: a comma may end the list
Params(t) ==
    LET given == IF t = <<>> THEN <<>> ELSE SplitOn(t, 44)
        last == IF given = <<>> THEN <<>> ELSE given[Len(given)]
    IN  IF Len(given) > 1 /\ last \in Seq({32})
        THEN [i \in 1..(Len(given) - 1) |-> Param(given[i])]
        ELSE [i \in 1..Len(given) |-> Param(given[i])]

\* where the parameters with n stars are
StarsAt(ps, n) == {i \in 1..Len(ps) : ps[i].stars = n}

\* a * alone
IsBare(p) == p.stars = 1 /\ p.name = <<>>

\* the parameter lists Python takes: at most one * (alone, with a plain name
\* right after it, or as *NAME) and at most one **NAME, the last
ParamsTaken(ps) ==
    /\ \A i \in 1..Len(ps) : ps[i].stars <= 2 /\ (IsBare(ps[i]) \/ IsName(ps[i].name))
    /\ Cardinality(StarsAt(ps, 1)) <= 1
    /\ StarsAt(ps, 2) \subseteq {Len(ps)}
    /\ \A i \in StarsAt(ps, 1) : IsBare(ps[i]) => (i < Len(ps) /\ ps[i + 1].stars = 0)

\* the arguments node of the parameters ps
ArgumentsNode(ps) ==
    [args |-> Cardinality({i \in StarsAt(ps, 0) : \A j \in StarsAt(ps, 1) : i < j}),
     kwonlyargs |-> Cardinality({i \in StarsAt(ps, 0) : \E j \in StarsAt(ps, 1) : i > j}),
     vararg |-> \E i \in StarsAt(ps, 1) : ~IsBare(ps[i]),
     kwarg |-> StarsAt(ps, 2) # {}]

\* the arguments node of a parameter list, or None for a list Python does not
\* take
Arguments(t) == IF ParamsTaken(Params(t)) THEN Some(ArgumentsNode(Params(t))) ELSE None

\* the FunctionDef node of a line def NAME(PARAMS): pass, or None
FunctionDef(line) ==
    LET open == SkipUntil(line, 1, {40})
        close == Len(line) - Len(Str("): pass")) + 1
    IN  IF /\ HasAt(line, 1, Str("def "))
           /\ open < close
           /\ HasAt(line, close, Str("): pass"))
           /\ IsName(SubSeq(line, 5, open - 1))
           /\ IsSome(Arguments(SubSeq(line, open + 1, close - 1)))
        THEN Some([name |-> SubSeq(line, 5, open - 1),
                   args |-> Val(Arguments(SubSeq(line, open + 1, close - 1)))])
        ELSE None

\* ast.parse(text), then the FunctionDef nodes in the order of ast.walk; None
\* when ast.parse raises
FunctionDefs(text) ==
    LET lines == SelectSeq(SplitOn(text, LF), LAMBDA l : l # <<>>)
    IN  IF \E i \in 1..Len(lines) : FunctionDef(lines[i]) = None THEN None
        ELSE Some([i \in 1..Len(lines) |-> Val(FunctionDef(lines[i]))])

\* total = len(node.args.args) + len(node.args.kwonlyargs), and one more for
\* each of vararg and kwarg
TotalParams(node) ==
    node.args.args + node.args.kwonlyargs
    + (IF node.args.vararg THEN 1 ELSE 0) + (IF node.args.kwarg THEN 1 ELSE 0)

\* the walk of lines 1295-1303: a finding for each function whose total is at
\* least max_params
OverThreshold(rel, nodes, mp) ==
    LET over == SelectSeq(nodes, LAMBDA n : TotalParams(n) >= mp)
    IN  [i \in 1..Len(over) |-> <<rel, over[i].name, TotalParams(over[i])>>]

\* cmd_many_params_scan(args.path, args.max_params): findings = []
ManyParamsStart(p, mp) ==
    HandlerStart([cmd |-> "many-params-scan", path |-> p, max_params |-> mp],
                 Some({Str(".py")}), <<>>)

\* _ast_funcs_with_spans(fp): text = read_text_safe(py_path)
ManyParamsSpansRead ==
    /\ AtEntry("many-params-scan")
    /\ spans = None
    /\ ReadCall(Entry[1], DefaultMaxBytes)

\* _ast_funcs_with_spans returns: [] for no text and for a syntax error, else
\* the functions of the file; the loop over them begins
ManyParamsSpans ==
    /\ AtEntry("many-params-scan")
    /\ spans = None
    /\ rpc = "returned"
    /\ LET funcs == IF result = None \/ FunctionDefs(Val(result)) = None THEN <<>>
                    ELSE Val(FunctionDefs(Val(result)))
       IN  IF funcs = <<>>
           THEN NextEntry /\ UNCHANGED spans
           ELSE spans' = Some(funcs) /\ UNCHANGED walkVars
    /\ rpc' = "idle"
    /\ UNCHANGED <<path, max_bytes, size, f, data, result, exc, snap>>
    /\ UNCHANGED <<args, findings, content, out, mpc, clock, stdout, ret, bodies>>
    /\ UNCHANGED <<out_parts, handle, exits, urls, requests, dispatchVars, fsVars, binVars>>

\* in the loop over the functions: text = read_text_safe(fp)
ManyParamsRead ==
    /\ AtEntry("many-params-scan")
    /\ spans # None
    /\ ReadCall(Entry[1], DefaultMaxBytes)

\* if not text: continue; tree = ast.parse(text), continue if it raises; the
\* walk over every function of the tree; then the next function of the outer
\* loop, or the next file
ManyParamsWalk ==
    /\ AtEntry("many-params-scan")
    /\ spans # None
    /\ rpc = "returned"
    /\ findings' = IF result = None \/ Val(result) = <<>> \/ FunctionDefs(Val(result)) = None
                   THEN findings
                   ELSE findings \o OverThreshold(Entry[2], Val(FunctionDefs(Val(result))),
                                                  Val(args).max_params)
    /\ IF Len(Val(spans)) = 1
       THEN NextEntry /\ spans' = None
       ELSE spans' = Some(Tail(Val(spans))) /\ UNCHANGED walkVars
    /\ rpc' = "idle"
    /\ UNCHANGED <<path, max_bytes, size, f, data, result, exc, snap>>
    /\ UNCHANGED <<args, content, out, mpc, clock, stdout, ret, bodies>>
    /\ UNCHANGED <<out_parts, handle, exits, urls, requests, dispatchVars, fsVars, binVars>>

\* out = [md_h1(...), "Threshold: ...\n\n"], a line for each finding, or the
\* line for none; return "".join(out)
ManyParamsReturn ==
    /\ wpc = "done"
    /\ HandlerReturn("many-params-scan",
          <<md_h1(Str("Many Parameters Scanner (Python)")),
            Str("Threshold: ") \o Decimal(Val(args).max_params) \o <<LF, LF>>>>
          \o [i \in 1..Len(findings) |->
                 Str("- ") \o PathStr(findings[i][1]) \o Str("::") \o findings[i][2]
                 \o <<32, 8212, 32>> \o Decimal(findings[i][3]) \o Str(" params") \o <<LF>>]
          \o (IF findings = <<>>
              THEN <<Str("No functions over threshold.") \o <<LF>>>> ELSE <<>>))

----------------------------------------------------------------------------
(* duplicate-file-contents-scan *)

\* the sixteen hex digits
HexDigits == Str("0123456789abcdef")

\* hashlib.sha256(data).hexdigest().  The digest is modelled by a stand-in
\* that, like SHA-256 on every pair of inputs known, gives different bytes
\* different digests: the bytes themselves in hex.
sha256_hexdigest(d) ==
    Concat([i \in 1..Len(d) |-> <<HexDigits[(d[i] \div 16) + 1], HexDigits[(d[i] % 16) + 1]>>])

\* a plausible slip: the files keyed by their size, not by their bytes
HashesAppendBySize(hashes, d, rel) ==
    LET h == Decimal(Len(d))
        at == {i \in 1..Len(hashes) : hashes[i].h = h}
    IN  IF at = {} THEN Append(hashes, [h |-> h, rels |-> <<rel>>])
        ELSE [i \in 1..Len(hashes) |->
                 IF i \in at THEN [hashes[i] EXCEPT !.rels = Append(@, rel)] ELSE hashes[i]]

\* h = hashlib.sha256(data).hexdigest(); hashes[h].append(rel): hashes is a
\* dict, its keys in the order they came in
HashesAppend(hashes, d, rel) ==
    LET h == sha256_hexdigest(d)
        at == {i \in 1..Len(hashes) : hashes[i].h = h}
    IN  IF at = {} THEN Append(hashes, [h |-> h, rels |-> <<rel>>])
        ELSE [i \in 1..Len(hashes) |->
                 IF i \in at THEN [hashes[i] EXCEPT !.rels = Append(@, rel)] ELSE hashes[i]]

\* cmd_duplicate_file_contents_scan(args.path, args.max_bytes): hashes is
\* empty (findings holds it), and every file is walked
DupContentsStart(p, mb) ==
    HandlerStart([cmd |-> "duplicate-file-contents-scan", path |-> p, max_bytes |-> mb],
                 None, <<>>)

\* the body of the loop for one file: the size is looked up and the file
\* skipped when it is over max_bytes; the file is opened and read, its digest
\* taken and its rel put under it; any exception skips the file
DupContentsEntry ==
    /\ AtEntry("duplicate-file-contents-scan")
    /\ findings' = IF \/ IsSome(OpenError(Entry[1]))
                      \/ Len(fs[Entry[1]].data) > Val(args).max_bytes
                   THEN findings
                   ELSE HashesAppend(findings, fs[Entry[1]].data, Entry[2])
    /\ NextEntry
    /\ UNCHANGED <<args, content, out, mpc, clock, stdout, ret, bodies, cmdVars>>
    /\ UNCHANGED <<fsVars, readVars, binVars>>

\* the heading and the lines of one entry of hashes, if it has two files
DupGroup(g) ==
    IF Len(g.rels) > 1
    THEN <<md_h2(g.h)>> \o [i \in 1..Len(g.rels) |-> Str("- ") \o PathStr(g.rels[i]) \o <<LF>>]
    ELSE <<>>

\* out = [md_h1(...), "Only files <= ... bytes considered.\n\n"], the groups
\* of two files and more, or the line for none; return "".join(out)
DupContentsReturn ==
    /\ wpc = "done"
    /\ HandlerReturn("duplicate-file-contents-scan",
          <<md_h1(Str("Duplicate File Contents Scanner")),
            Str("Only files <= ") \o Decimal(Val(args).max_bytes)
            \o Str(" bytes considered.") \o <<LF, LF>>>>
          \o Concat([i \in 1..Len(findings) |-> DupGroup(findings[i])])
          \o (IF \A i \in 1..Len(findings) : Len(findings[i].rels) <= 1
              THEN <<Str("No duplicate file contents found.") \o <<LF>>>> ELSE <<>>))

----------------------------------------------------------------------------
(* main's command line: the subcommands registered with the parser, and the *)
(* if/elif chain that dispatches on args.cmd                                *)

\* sub.add_parser(name) with its add_argument calls: the options that take a
\* value, the store_true flags, and the options marked required
Sub(name, opts, flags, required) ==
    [name |-> name, opts |-> opts, flags |-> flags, required |-> required]

\* the subparsers, in the order of their registration
Registered ==
  <<
    Sub("todo-scan", {"--path"}, {}, {}), Sub("fixme-scan", {"--path"}, {}, {}),
    Sub("error-scan", {"--path"}, {}, {}), Sub("bug-scan", {"--path"}, {}, {}),
    Sub("secret-scan", {"--path"}, {}, {}), Sub("code-stats", {"--path"}, {}, {}),
    Sub("comment-summary", {"--path"}, {}, {}),
    Sub("long-func-scan", {"--path", "--min-lines"}, {}, {}),
    Sub("miss-docstring-scan", {"--path"}, {}, {}),
    Sub("duplicate-line-scan", {"--path", "--min-dupes"}, {}, {}),
    Sub("large-file-scan", {"--path", "--min-bytes"}, {}, {}),
    Sub("syntax-scan-py", {"--path"}, {}, {}), Sub("env-var-scan", {"--path"}, {}, {}),
    Sub("license-detect", {"--path"}, {}, {}), Sub("link-check-md", {"--path"}, {"--offline"}, {}),
    Sub("test-file-scan", {"--path"}, {}, {}), Sub("deprecated-api-scan", {"--path"}, {}, {}),
    Sub("print-debug-scan", {"--path"}, {}, {}), Sub("magic-number-scan", {"--path"}, {}, {}),
    Sub("tabs-scan", {"--path"}, {}, {}), Sub("trailing-whitespace-scan", {"--path"}, {}, {}),
    Sub("utf-bom-scan", {"--path"}, {}, {}), Sub("non-ascii-scan", {"--path"}, {}, {}),
    Sub("newline-consistency-scan", {"--path"}, {}, {}),
    Sub("line-length-scan", {"--path", "--max-len"}, {}, {}),
    Sub("mixed-indent-scan", {"--path"}, {}, {}), Sub("shebang-scan", {"--path"}, {}, {}),
    Sub("empty-file-scan", {"--path"}, {}, {}), Sub("dead-except-scan", {"--path"}, {}, {}),
    Sub("broad-except-scan", {"--path"}, {}, {}), Sub("eval-exec-scan", {"--path"}, {}, {}),
    Sub("subprocess-shell-scan", {"--path"}, {}, {}),
    Sub("hardcoded-path-scan", {"--path"}, {}, {}), Sub("http-url-scan", {"--path"}, {}, {}),
    Sub("version-number-scan", {"--path"}, {}, {}),
    Sub("traceback-usage-scan", {"--path"}, {}, {}),
    Sub("unreachable-code-scan-py", {"--path"}, {}, {}),
    Sub("commented-out-code-scan", {"--path"}, {}, {}),
    Sub("many-params-scan", {"--path", "--max-params"}, {}, {}),
    Sub("license-header-missing-scan", {"--path"}, {}, {}),
    Sub("typing-missing-scan", {"--path"}, {}, {}), Sub("logger-debug-scan", {"--path"}, {}, {}),
    Sub("sleep-call-scan", {"--path"}, {}, {}), Sub("annotation-scan", {"--path"}, {}, {}),
    Sub("pinned-versions-scan", {"--path"}, {}, {}),
    Sub("duplicate-filename-scan", {"--path"}, {}, {}),
    Sub("duplicate-file-contents-scan", {"--path", "--max-bytes"}, {}, {}),
    Sub("binary-file-inventory", {"--path"}, {}, {}),
    Sub("large-line-scan", {"--path", "--min-len"}, {}, {}),
    Sub("trailing-empty-lines-scan", {"--path", "--min-trailing"}, {}, {}),
    Sub("markdown-heading-index", {"--path"}, {}, {}),
    Sub("markdown-image-check", {"--path"}, {}, {}),
    Sub("markdown-word-count", {"--path"}, {}, {}), Sub("yaml-syntax-scan", {"--path"}, {}, {}),
    Sub("json-syntax-scan", {"--path"}, {}, {}), Sub("xml-syntax-scan", {"--path"}, {}, {}),
    Sub("html-syntax-scan", {"--path"}, {}, {}), Sub("nocommit-scan", {"--path"}, {}, {}),
    Sub("json-to-md", {"--path"}, {}, {}), Sub("csv-to-md", {"--path", "--max-rows"}, {}, {}),
    Sub("md-to-txt", {"--path"}, {}, {}), Sub("txt-to-md", {"--path"}, {}, {}),
    Sub("code-to-md", {"--path", "--max-bytes-per-file"}, {}, {}),
    Sub("requirements-to-md", {"--path"}, {}, {}), Sub("package-json-to-md", {"--path"}, {}, {}),
    Sub("junit-xml-to-md", {"--path"}, {}, {}), Sub("dir-tree-to-md", {"--path"}, {}, {}),
    Sub("file-index", {"--path"}, {}, {}), Sub("changelog-summary", {"--path"}, {}, {}),
    Sub("readme-summary", {"--path"}, {}, {}), Sub("metadata-pack", {"--path"}, {}, {}),
    Sub("prompt-pack", {"--path"}, {}, {}),
    Sub("chunk", {"--path", "--file", "--lines-per-chunk"}, {}, {"--file"}),
    Sub("token-estimate", {"--path"}, {}, {}), Sub("image-inventory", {"--path"}, {}, {}),
    Sub("dir-size-report", {"--path"}, {}, {}), Sub("csv-summary", {"--path"}, {}, {}),
    Sub("json-schema-extract", {"--path", "--max-files"}, {}, {}),
    Sub("api-spec-from-openapi", {"--path"}, {}, {}), Sub("yaml-to-md", {"--path"}, {}, {}),
    Sub("xml-to-md", {"--path"}, {}, {}), Sub("html-to-md-text", {"--path"}, {}, {}),
    Sub("ini-to-md", {"--path"}, {}, {}), Sub("toml-to-md", {"--path"}, {}, {}),
    Sub("properties-to-md", {"--path"}, {}, {}), Sub("pyproject-to-md", {"--path"}, {}, {}),
    Sub("gitignore-to-md", {"--path"}, {}, {}), Sub("editorconfig-to-md", {"--path"}, {}, {}),
    Sub("license-to-md", {"--path"}, {}, {}), Sub("code-outline-py", {"--path"}, {}, {}),
    Sub("import-list-py", {"--path"}, {}, {}), Sub("function-metrics-py", {"--path"}, {}, {}),
    Sub("class-metrics-py", {"--path"}, {}, {}), Sub("docstring-summary-py", {"--path"}, {}, {}),
    Sub("extension-inventory", {"--path"}, {}, {}),
    Sub("recent-files-report", {"--path", "--days"}, {}, {}),
    Sub("file-age-report", {"--path", "--top"}, {}, {}), Sub("readme-links", {"--path"}, {}, {}),
    Sub("template-gen", {"--name"}, {}, {"--name"})
  >>

\* the keys of TEMPLATES, the choices of template-gen's --name
Templates ==
    {"issue", "pr", "bug-report", "feature-request", "code-review-checklist",
     "security-report", "release-notes", "testing-plan", "adr",
     "contributing", "roadmap", "design-doc", "api-spec", "sprint-planning",
     "meeting-notes"}

\* the def statements of the module whose name begins with cmd_
Defined ==
    {"cmd_todo_scan", "cmd_fixme_scan", "cmd_error_scan", "cmd_bug_scan", "cmd_secret_scan",
     "cmd_code_stats", "cmd_comment_summary", "cmd_long_func_scan", "cmd_miss_docstring_scan",
     "cmd_duplicate_line_scan", "cmd_large_file_scan", "cmd_syntax_scan_py", "cmd_env_var_scan",
     "cmd_license_detect", "cmd_link_check_md", "cmd_test_file_scan", "cmd_deprecated_api_scan",
     "cmd_print_debug_scan", "cmd_magic_number_scan", "cmd_tabs_scan",
     "cmd_trailing_whitespace_scan", "cmd_utf_bom_scan", "cmd_non_ascii_scan",
     "cmd_newline_consistency_scan", "cmd_json_to_md", "cmd_csv_to_md", "cmd_md_to_txt",
     "cmd_txt_to_md", "cmd_code_to_md", "cmd_requirements_to_md", "cmd_package_json_to_md",
     "cmd_junit_xml_to_md", "cmd_dir_tree_to_md", "cmd_file_index", "cmd_changelog_summary",
     "cmd_readme_summary", "cmd_metadata_pack", "cmd_prompt_pack", "cmd_chunk",
     "cmd_token_estimate", "cmd_image_inventory", "cmd_dir_size_report", "cmd_csv_summary",
     "cmd_json_schema_extract", "cmd_api_spec_from_openapi", "cmd_line_length_scan",
     "cmd_mixed_indent_scan", "cmd_shebang_scan", "cmd_empty_file_scan", "cmd_dead_except_scan",
     "cmd_broad_except_scan", "cmd_eval_exec_scan", "cmd_subprocess_shell_scan",
     "cmd_hardcoded_path_scan", "cmd_http_url_scan", "cmd_version_number_scan",
     "cmd_traceback_usage_scan", "cmd_unreachable_code_scan_py", "cmd_commented_out_code_scan",
     "cmd_many_params_scan", "cmd_license_header_missing_scan", "cmd_typing_missing_scan",
     "cmd_logger_debug_scan", "cmd_sleep_call_scan", "cmd_annotation_scan",
     "cmd_pinned_versions_scan", "cmd_duplicate_filename_scan", "cmd_duplicate_file_contents_scan",
     "cmd_binary_file_inventory", "cmd_large_line_scan", "cmd_trailing_empty_lines_scan",
     "cmd_markdown_heading_index", "cmd_markdown_image_check", "cmd_markdown_word_count",
     "cmd_yaml_syntax_scan", "cmd_json_syntax_scan", "cmd_xml_syntax_scan", "cmd_html_syntax_scan",
     "cmd_nocommit_scan", "cmd_yaml_to_md", "cmd_xml_to_md", "cmd_html_to_md_text",
     "cmd_ini_to_md", "cmd_toml_to_md", "cmd_properties_to_md", "cmd_pyproject_to_md",
     "cmd_gitignore_to_md", "cmd_editorconfig_to_md", "cmd_license_to_md", "cmd_code_outline_py",
     "cmd_import_list_py", "cmd_function_metrics_py", "cmd_class_metrics_py",
     "cmd_docstring_summary_py", "cmd_extension_inventory", "cmd_recent_files_report",
     "cmd_file_age_report", "cmd_readme_links", "cmd_template_gen"}

\* the place of {args.name} in the f-string of template-gen's report name
ArgName == "{args.name}"

\* elif args.cmd == test: content = handler(...); out = report_path(report)
Branch(test, handler, report) == [test |-> test, handler |-> handler, report |-> report]

\* the chain, from the if to the last elif
Branches ==
  <<
    Branch("todo-scan", "cmd_todo_scan", <<"todo-scan">>),
    Branch("fixme-scan", "cmd_fixme_scan", <<"fixme-scan">>),
    Branch("error-scan", "cmd_error_scan", <<"error-scan">>),
    Branch("bug-scan", "cmd_bug_scan", <<"bug-scan">>),
    Branch("secret-scan", "cmd_secret_scan", <<"secret-scan">>),
    Branch("code-stats", "cmd_code_stats", <<"code-stats">>),
    Branch("comment-summary", "cmd_comment_summary", <<"comment-summary">>),
    Branch("long-func-scan", "cmd_long_func_scan", <<"long-func-scan">>),
    Branch("miss-docstring-scan", "cmd_miss_docstring_scan", <<"miss-docstring-scan">>),
    Branch("duplicate-line-scan", "cmd_duplicate_line_scan", <<"duplicate-line-scan">>),
    Branch("large-file-scan", "cmd_large_file_scan", <<"large-file-scan">>),
    Branch("syntax-scan-py", "cmd_syntax_scan_py", <<"syntax-scan-py">>),
    Branch("env-var-scan", "cmd_env_var_scan", <<"env-var-scan">>),
    Branch("license-detect", "cmd_license_detect", <<"license-detect">>),
    Branch("link-check-md", "cmd_link_check_md", <<"link-check-md">>),
    Branch("test-file-scan", "cmd_test_file_scan", <<"test-file-scan">>),
    Branch("deprecated-api-scan", "cmd_deprecated_api_scan", <<"deprecated-api-scan">>),
    Branch("print-debug-scan", "cmd_print_debug_scan", <<"print-debug-scan">>),
    Branch("magic-number-scan", "cmd_magic_number_scan", <<"magic-number-scan">>),
    Branch("tabs-scan", "cmd_tabs_scan", <<"tabs-scan">>),
    Branch("trailing-whitespace-scan", "cmd_trailing_whitespace_scan", <<"trailing-whitespace-scan">>),
    Branch("utf-bom-scan", "cmd_utf_bom_scan", <<"utf-bom-scan">>),
    Branch("non-ascii-scan", "cmd_non_ascii_scan", <<"non-ascii-scan">>),
    Branch("newline-consistency-scan", "cmd_newline_consistency_scan", <<"newline-consistency-scan">>),
    Branch("json-to-md", "cmd_json_to_md", <<"json-to-md">>),
    Branch("csv-to-md", "cmd_csv_to_md", <<"csv-to-md">>),
    Branch("md-to-txt", "cmd_md_to_txt", <<"md-to-txt">>),
    Branch("txt-to-md", "cmd_txt_to_md", <<"txt-to-md">>),
    Branch("code-to-md", "cmd_code_to_md", <<"code-to-md">>),
    Branch("requirements-to-md", "cmd_requirements_to_md", <<"requirements-to-md">>),
    Branch("package-json-to-md", "cmd_package_json_to_md", <<"package-json-to-md">>),
    Branch("junit-xml-to-md", "cmd_junit_xml_to_md", <<"junit-xml-to-md">>),
    Branch("dir-tree-to-md", "cmd_dir_tree_to_md", <<"dir-tree-to-md">>),
    Branch("file-index", "cmd_file_index", <<"file-index">>),
    Branch("changelog-summary", "cmd_changelog_summary", <<"changelog-summary">>),
    Branch("readme-summary", "cmd_readme_summary", <<"readme-summary">>),
    Branch("metadata-pack", "cmd_metadata_pack", <<"metadata-pack">>),
    Branch("prompt-pack", "cmd_prompt_pack", <<"prompt-pack">>),
    Branch("chunk", "cmd_chunk", <<"chunk">>),
    Branch("token-estimate", "cmd_token_estimate", <<"token-estimate">>),
    Branch("image-inventory", "cmd_image_inventory", <<"image-inventory">>),
    Branch("dir-size-report", "cmd_dir_size_report", <<"dir-size-report">>),
    Branch("csv-summary", "cmd_csv_summary", <<"csv-summary">>),
    Branch("json-schema-extract", "cmd_json_schema_extract", <<"json-schema-extract">>),
    Branch("api-spec-from-openapi", "cmd_api_spec_from_openapi", <<"api-spec-from-openapi">>),
    Branch("line-length-scan", "cmd_line_length_scan", <<"line-length-scan">>),
    Branch("mixed-indent-scan", "cmd_mixed_indent_scan", <<"mixed-indent-scan">>),
    Branch("shebang-scan", "cmd_shebang_scan", <<"shebang-scan">>),
    Branch("empty-file-scan", "cmd_empty_file_scan", <<"empty-file-scan">>),
    Branch("dead-except-scan", "cmd_dead_except_scan", <<"dead-except-scan">>),
    Branch("broad-except-scan", "cmd_broad_except_scan", <<"broad-except-scan">>),
    Branch("eval-exec-scan", "cmd_eval_exec_scan", <<"eval-exec-scan">>),
    Branch("subprocess-shell-scan", "cmd_subprocess_shell_scan", <<"subprocess-shell-scan">>),
    Branch("hardcoded-path-scan", "cmd_hardcoded_path_scan", <<"hardcoded-path-scan">>),
    Branch("http-url-scan", "cmd_http_url_scan", <<"http-url-scan">>),
    Branch("version-number-scan", "cmd_version_number_scan", <<"version-number-scan">>),
    Branch("traceback-usage-scan", "cmd_traceback_usage_scan", <<"traceback-usage-scan">>),
    Branch("unreachable-code-scan-py", "cmd_unreachable_code_scan_py", <<"unreachable-code-scan-py">>),
    Branch("commented-out-code-scan", "cmd_commented_out_code_scan", <<"commented-out-code-scan">>),
    Branch("many-params-scan", "cmd_many_params_scan", <<"many-params-scan">>),
    Branch("license-header-missing-scan", "cmd_license_header_missing_scan", <<"license-header-missing-scan">>),
    Branch("typing-missing-scan", "cmd_typing_missing_scan", <<"typing-missing-scan">>),
    Branch("logger-debug-scan", "cmd_logger_debug_scan", <<"logger-debug-scan">>),
    Branch("sleep-call-scan", "cmd_sleep_call_scan", <<"sleep-call-scan">>),
    Branch("annotation-scan", "cmd_annotation_scan", <<"annotation-scan">>),
    Branch("pinned-versions-scan", "cmd_pinned_versions_scan", <<"pinned-versions-scan">>),
    Branch("duplicate-filename-scan", "cmd_duplicate_filename_scan", <<"duplicate-filename-scan">>),
    Branch("duplicate-file-contents-scan", "cmd_duplicate_file_contents_scan", <<"duplicate-file-contents-scan">>),
    Branch("binary-file-inventory", "cmd_binary_file_inventory", <<"binary-file-inventory">>),
    Branch("large-line-scan", "cmd_large_line_scan", <<"large-line-scan">>),
    Branch("trailing-empty-lines-scan", "cmd_trailing_empty_lines_scan", <<"trailing-empty-lines-scan">>),
    Branch("markdown-heading-index", "cmd_markdown_heading_index", <<"markdown-heading-index">>),
    Branch("markdown-image-check", "cmd_markdown_image_check", <<"markdown-image-check">>),
    Branch("markdown-word-count", "cmd_markdown_word_count", <<"markdown-word-count">>),
    Branch("yaml-syntax-scan", "cmd_yaml_syntax_scan", <<"yaml-syntax-scan">>),
    Branch("json-syntax-scan", "cmd_json_syntax_scan", <<"json-syntax-scan">>),
    Branch("xml-syntax-scan", "cmd_xml_syntax_scan", <<"xml-syntax-scan">>),
    Branch("html-syntax-scan", "cmd_html_syntax_scan", <<"html-syntax-scan">>),
    Branch("nocommit-scan", "cmd_nocommit_scan", <<"nocommit-scan">>),
    Branch("yaml-to-md", "cmd_yaml_to_md", <<"yaml-to-md">>),
    Branch("xml-to-md", "cmd_xml_to_md", <<"xml-to-md">>),
    Branch("html-to-md-text", "cmd_html_to_md_text", <<"html-to-md-text">>),
    Branch("ini-to-md", "cmd_ini_to_md", <<"ini-to-md">>),
    Branch("toml-to-md", "cmd_toml_to_md", <<"toml-to-md">>),
    Branch("properties-to-md", "cmd_properties_to_md", <<"properties-to-md">>),
    Branch("pyproject-to-md", "cmd_pyproject_to_md", <<"pyproject-to-md">>),
    Branch("gitignore-to-md", "cmd_gitignore_to_md", <<"gitignore-to-md">>),
    Branch("editorconfig-to-md", "cmd_editorconfig_to_md", <<"editorconfig-to-md">>),
    Branch("license-to-md", "cmd_license_to_md", <<"license-to-md">>),
    Branch("code-outline-py", "cmd_code_outline_py", <<"code-outline-py">>),
    Branch("import-list-py", "cmd_import_list_py", <<"import-list-py">>),
    Branch("function-metrics-py", "cmd_function_metrics_py", <<"function-metrics-py">>),
    Branch("class-metrics-py", "cmd_class_metrics_py", <<"class-metrics-py">>),
    Branch("docstring-summary-py", "cmd_docstring_summary_py", <<"docstring-summary-py">>),
    Branch("extension-inventory", "cmd_extension_inventory", <<"extension-inventory">>),
    Branch("recent-files-report", "cmd_recent_files_report", <<"recent-files-report">>),
    Branch("file-age-report", "cmd_file_age_report", <<"file-age-report">>),
    Branch("readme-links", "cmd_readme_links", <<"readme-links">>),
    Branch("template-gen", "cmd_template_gen", <<"template-", ArgName>>)
  >>

\* parser.parse_args(av) for av = [name, option, value] or [name]: the
\* namespace, or None where argparse ends the process with status 2 (no
\* subcommand, one that is not registered, an option the subparser does not
\* have, a required option left out, a --name outside the choices).  --path
\* defaults to ".".
ParseArgs(av) ==
    LET hits == IF av = <<>> THEN {}
                ELSE {i \in DOMAIN Registered : Registered[i].name = av[1]}
        r == Registered[CHOOSE i \in hits : TRUE]
        given == IF Len(av) = 3 THEN {av[2]} ELSE {}
        value(o, default) == IF o \in given THEN av[3] ELSE default
    IN  IF hits = {} \/ Len(av) \notin {1, 3} THEN None
        ELSE IF ~(given \subseteq r.opts) \/ ~(r.required \subseteq given) THEN None
        ELSE IF "--name" \in given /\ av[3] \notin Templates THEN None
        ELSE Some([cmd |-> av[1],
                   path |-> IF value("--path", ".") = "." THEN <<CURDIR>>
                            ELSE <<Str(value("--path", "."))>>,
                   name |-> value("--name", "")])

\* a plausible slip: a branch pasted from the one above it, its test changed
\* and its handler left as it was
BranchOfPasted(cmd) ==
    LET hits == {i \in DOMAIN Branches : Branches[i].test = cmd}
        first == CHOOSE i \in hits : \A j \in hits : i <= j
    IN  IF hits = {} THEN None
        ELSE IF first > 1 /\ first % 2 = 0
             THEN Some([Branches[first] EXCEPT !.handler = Branches[first - 1].handler])
        ELSE Some(Branches[first])

\* the branch the chain takes for args.cmd = cmd: the first whose test is
\* true, or None for the final else
BranchOf(cmd) ==
    LET hits == {i \in DOMAIN Branches : Branches[i].test = cmd}
    IN  IF hits = {} THEN None
        ELSE Some(Branches[CHOOSE i \in hits : \A j \in hits : i <= j])

\* the name given to report_path: the literal, {args.name} filled in
RECURSIVE ReportName(_, _)
ReportName(parts, ns) ==
    IF parts = <<>> THEN <<>>
    ELSE (IF Head(parts) = ArgName THEN Str(ns.name) ELSE Str(Head(parts)))
         \o ReportName(Tail(parts), ns)

\* main(av): args = parser.parse_args(argv); argparse ends the process with
\* status 2 when it does not take the arguments
MainParse(av) ==
    /\ mpc = "idle"
    /\ argv = None
    /\ argv' = Some(av)
    /\ IF ParseArgs(av) = None
       THEN /\ exits' = Append(exits, 2)
            /\ UNCHANGED <<args, mpc>>
       ELSE /\ args' = ParseArgs(av)
            /\ mpc' = "dispatch"
            /\ UNCHANGED exits
    /\ UNCHANGED <<findings, content, out, clock, stdout, ret, bodies>>
    /\ UNCHANGED <<out_parts, handle, loopVars, branch, fsVars, readVars, binVars, walkVars>>

\* run_from_wrapper(subcommand, extra_args): argv = [subcommand], extended by
\* extra_args if there are any, and main(argv) is called
RunFromWrapper(subcommand, extra_args) ==
    /\ MainParse(<<subcommand>> \o extra_args)

\* what a handler does, seen from main: it returns a str, or raises
HandlerOutcomes == {Some(Str("# Report")), None}

\* the chain runs: the branch taken calls its handler, content = handler(...)
\* (NameError when no such function is defined); the final else calls
\* parser.error('Unknown command'), which ends the process with status 2
Dispatch ==
    /\ mpc = "dispatch"
    /\ branch' = BranchOf(Val(args).cmd)
    /\ IF branch' = None
       THEN /\ mpc' = "unknown"
            /\ exits' = Append(exits, 2)
            /\ UNCHANGED <<content, stdout, ret>>
       ELSE /\ \E r \in HandlerOutcomes :
                 IF Val(branch').handler \notin Defined \/ r = None
                 THEN MainExcept /\ UNCHANGED content
                 ELSE /\ content' = r
                      /\ mpc' = "report_path"
                      /\ UNCHANGED <<stdout, ret>>
            /\ UNCHANGED exits
    /\ UNCHANGED <<args, findings, out, clock, bodies, argv>>
    /\ UNCHANGED <<out_parts, handle, loopVars, fsVars, readVars, binVars, walkVars>>

\* out = report_path(...) with the name the branch gives
DispatchReportPath ==
    /\ mpc = "report_path"
    /\ IsSome(branch)
    /\ IF Exists(OutDir) /\ ~EntryIsDir(OutDir)
       THEN /\ MainExcept
            /\ UNCHANGED <<out, fs, bodies>>
       ELSE /\ fs' = [p \in DOMAIN fs \cup {OutDir} |-> IF p = OutDir /\ ~Exists(p) THEN Dir ELSE fs[p]]
            /\ out' = Some(report_path(ReportName(Val(branch).report, Val(args)), Str("md"), clock))
            /\ mpc' = "write"
            /\ UNCHANGED <<stdout, ret, bodies>>
    /\ UNCHANGED <<args, findings, content, clock, envSteps, cmdVars>>
    /\ UNCHANGED <<readVars, binVars, walkVars>>

\* sys.exit(main(argv)), from run_from_wrapper and from the module run as a
\* script: the process ends with what main returned
ProcessExit ==
    /\ mpc = "idle"
    /\ Len(exits) < Len(ret)
    /\ exits' = Append(exits, ret[Len(ret)])
    /\ UNCHANGED <<args, findings, content, out, mpc, clock, stdout, ret, bodies>>
    /\ UNCHANGED <<out_parts, handle, loopVars, dispatchVars, fsVars, readVars, binVars, walkVars>>

----------------------------------------------------------------------------
(* is_binary_bytes applied to samples drawn from bounded sets *)

\* samples of up to MaxShortLen bytes over the bytes next to every edge of
\* text_characters, and of up to MaxChunkLen bytes over one non-text byte (1)
\* and one text byte (65)
MaxShortLen == 3
MaxChunkLen == 10

EdgeBytes == {0, 1, 6, 7, 8, 9, 10, 11, 12, 13, 14, 26, 27, 28, 31, 32, 127, 128, 255}

SeqsUpTo(S, n) == UNION {[1..k -> S] : k \in 0..n}

Samples == SeqsUpTo(EdgeBytes, MaxShortLen) \cup SeqsUpTo({1, 65}, MaxChunkLen)

WalkIdle ==
    /\ base = <<>> /\ include_exts = None /\ stack = <<>> /\ root = <<>>
    /\ dirs = <<>> /\ files = <<>> /\ wpc = "idle" /\ yielded = <<>>
    /\ walks = <<>>

MainIdle ==
    /\ args = None /\ findings = <<>> /\ content = None /\ out = None
    /\ mpc = "idle" /\ clock = 0 /\ stdout = <<>> /\ ret = <<>> /\ bodies = <<>>
    /\ out_parts = <<>> /\ handle = None /\ exits = <<>>
    /\ urls = <<>> /\ requests = <<>>
    /\ argv = None /\ branch = None
    /\ spans = None

ReadIdle ==
    /\ path = <<>> /\ max_bytes = 0 /\ size = None /\ f = None /\ data = None
    /\ result = None /\ rpc = "idle" /\ exc = None /\ snap = None

InitBinary ==
    /\ chunk \in Samples
    /\ binary = None
    /\ bpc = "call"
    /\ fs = <<>> /\ envSteps = {}
    /\ ReadIdle /\ WalkIdle /\ MainIdle

ApplyBinary ==
    /\ bpc = "call"
    /\ binary' = Some(is_binary_bytes(chunk))
    /\ bpc' = "done"
    /\ UNCHANGED <<chunk, fsVars, readVars, walkVars, mainVars>>

NextBinary == ApplyBinary

SpecBinary == InitBinary /\ [][NextBinary]_vars

----------------------------------------------------------------------------
(* read_text_safe called once on one path, with other processes at work *)

\* file contents are built from at most MaxRuns runs of one byte each
MaxRuns == 2

\* the largest count of non-text bytes in a full sample that is not binary
EdgeCount == (SampleLen * ThresholdNum) \div ThresholdDen

\* single bytes: null, a non-text byte, "A", and the two bytes of U+00E9
\* (195 169), each of which is ill-formed alone; long runs of "A" and of the
\* non-text byte 1 with lengths next to the sample length and to the threshold
Runs ==
    {<<b, 1>> : b \in {0, 1, 65, 169, 195}}
    \cup {<<1, EdgeCount>>, <<1, EdgeCount + 1>>}
    \cup {<<65, SampleLen - EdgeCount - 1>>, <<65, SampleLen - EdgeCount>>}
    \cup {<<65, SampleLen - 1>>, <<65, SampleLen>>}

RECURSIVE Expand(_)
Expand(runs) ==
    IF runs = <<>> THEN <<>>
    ELSE Rep(Head(runs)[1], Head(runs)[2]) \o Expand(Tail(runs))

Contents == {Expand(r) : r \in SeqsUpTo(Runs, MaxRuns)}

\* the path read: "f"
ReadPath == << <<102>> >>

MaxBytesChoices == {0, 1, SampleLen, SampleLen + 1, DefaultMaxBytes}

AppendChoices == {<<0>>, <<65, 65>>}

InitRead ==
    /\ fs \in {<<>>, ReadPath :> Dir, ReadPath :> File(<<65>>, FALSE)}
              \cup {ReadPath :> File(c, TRUE) : c \in Contents}
    /\ envSteps = {}
    /\ ReadIdle /\ WalkIdle /\ MainIdle
    /\ chunk = <<>> /\ binary = None /\ bpc = "done"

NextRead ==
    \/ \E mb \in MaxBytesChoices : ReadCall(ReadPath, mb)
    \/ ReadGetSize
    \/ ReadOpen
    \/ ReadRead
    \/ ReadFinish
    \/ EnvUnlink
    \/ EnvChmod
    \/ \E b \in AppendChoices : EnvAppend(b)
    \/ EnvFault

SpecRead == InitRead /\ [][NextRead]_vars

----------------------------------------------------------------------------
(* iter_files run once over a tree *)

\* a tree holds at most MaxLeaves leaves, each with the directories above it
MaxLeaves == 2

\* the directories, below the working directory, a leaf may lie in
Chains ==
    {<<>>, <<Str("src")>>, <<Str(".git")>>, <<Str(".git"), Str("src")>>,
     <<Str("src"), Str("build")>>, <<Str("src"), Str(".cfg"), Str("lib")>>}

\* a leaf <<name, entry>>: a file, or a symbolic link to a directory
LeafKinds ==
    {<<Str("a.py"), File(<<>>, TRUE)>>, <<Str("B.PY"), File(<<>>, TRUE)>>,
     <<Str(".env"), File(<<>>, TRUE)>>, <<Str("build"), File(<<>>, TRUE)>>,
     <<Str("ln"), DirLink>>}

Leaves == {<<Cwd \o c \o <<k[1]>>, k[2]>> : c \in Chains, k \in LeafKinds}

Prefixes(p) == {SubSeq(p, 1, k) : k \in 0..(Len(p) - 1)}

\* the filesystem that holds the leaves ls, the working directory and every
\* directory above them
TreeOf(ls) ==
    LET dirPaths == Prefixes(Cwd) \cup {Cwd} \cup UNION {Prefixes(l[1]) : l \in ls}
        leafPaths == {l[1] : l \in ls}
    IN  [p \in dirPaths \cup leafPaths |->
            IF p \in dirPaths THEN Dir
            ELSE (CHOOSE x \in ls : x[1] = p)[2]]

\* no path is both a leaf and a directory above another leaf
Consistent(ls) == \A l \in ls : \A m \in ls : l[1] \notin Prefixes(m[1])

WalkTrees ==
    {TreeOf({t[i] : i \in 1..Len(t)}) :
        t \in {u \in SeqsUpTo(Leaves, MaxLeaves) : Consistent({u[i] : i \in 1..Len(u)})}}

WalkRoots == {<<CURDIR>>, <<Str("src")>>, <<Str(".git")>>, <<Str("src"), PARDIR, Str("gone")>>}

ExtChoices == {None, Some({Str(".py")}), Some({Str(".env"), <<>>})}

InitWalk ==
    /\ fs \in WalkTrees
    /\ envSteps = {}
    /\ ReadIdle /\ WalkIdle /\ MainIdle
    /\ chunk = <<>> /\ binary = None /\ bpc = "done"

NextWalk ==
    \/ /\ wpc = "idle"
       /\ \E p \in WalkRoots, exts \in ExtChoices : WalkStart(p, exts)
       /\ UNCHANGED <<walks, fsVars, readVars, binVars, mainVars>>
    \/ WalkDir
    \/ WalkFile
    \/ WalkDescend
    \/ WalkEnd
    \/ WalkResume

SpecWalk == InitWalk /\ [][NextWalk]_vars

----------------------------------------------------------------------------
(* todo-scan invoked from the same working directory, time after time *)

MaxInvocations == 2
MaxClock == 1

\* 40 bytes of Python text, with and without a TODO comment
PyWithTodo ==
    Str("import os") \o <<LF>> \o Str("# TODO: tidy this up") \o <<LF>> \o Str("x = 1234") \o <<LF>>
PyPlain ==
    Str("import os") \o <<LF>> \o Str("# note: tidy this up") \o <<LF>> \o Str("x = 1234") \o <<LF>>

APy == Cwd \o <<Str("a.py")>>
BBin == Cwd \o <<Str("b.bin")>>
GitCPy == Cwd \o <<Str(".git"), Str("c.py")>>

\* a.py (40 text bytes), b.bin (bytes 00 01 02) and .git/c.py
Scenario(aText) ==
    TreeOf({<<APy, File(aText, TRUE)>>,
            <<BBin, File(<<0, 1, 2>>, TRUE)>>,
            <<GitCPy, File(Str("# TODO in .git") \o <<LF>>, TRUE)>>})

\* the working directories todo-scan is run from: the scenario's, a project
\* with its source below src, and one where context_out is a regular file
MainTrees ==
    {Scenario(PyWithTodo), Scenario(PyPlain),
     TreeOf({<<Cwd \o <<Str("src"), Str("a.py")>>, File(PyWithTodo, TRUE)>>}),
     TreeOf({<<Cwd \o <<Str("context_out")>>, File(PyPlain, TRUE)>>})}

\* --path: the default ".", or src
PathArgs == {<<CURDIR>>, <<Str("src")>>}

InitMain ==
    /\ fs \in MainTrees
    /\ envSteps = {}
    /\ ReadIdle /\ WalkIdle /\ MainIdle
    /\ chunk = <<>> /\ binary = None /\ bpc = "done"

NextMain ==
    \/ /\ Len(ret) < MaxInvocations
       /\ \E p \in PathArgs : MainStart(p)
    \/ WalkDir
    \/ WalkFile
    \/ WalkDescend
    \/ WalkEnd
    \/ TodoRead
    \/ ReadGetSize
    \/ ReadOpen
    \/ ReadRead
    \/ ReadFinish
    \/ TodoLines
    \/ TodoRender
    \/ Tick(MaxClock)
    \/ MainReportPath
    \/ MainWrite
    \/ MainPrint

SpecMain == InitMain /\ [][NextMain]_vars

----------------------------------------------------------------------------
(* One process: main runs one subcommand over a project and exits *)

CsvText == Str("a,b") \o <<LF>> \o Str("1,2") \o <<LF>>

\* a project with a CSV file that reads and one that does not
CsvProject ==
    TreeOf({<<Cwd \o <<Str("a.csv")>>, File(CsvText, TRUE)>>,
            <<Cwd \o <<Str("b.csv")>>, File(CsvText, FALSE)>>,
            <<Cwd \o <<Str("a.py")>>, File(PyWithTodo, TRUE)>>})

\* a project with a CSV file whose first bytes are mostly control bytes
BinaryCsvProject ==
    TreeOf({<<Cwd \o <<Str("a.csv")>>, File(CsvText, TRUE)>>,
            <<Cwd \o <<Str("c.csv")>>, File(<<1, 2, 44, 3>>, TRUE)>>})

\* projects where the report cannot be written: context_out is a regular file,
\* or the report's name is taken by a directory
OutDirIsFile == TreeOf({<<OutDir, File(PyPlain, TRUE)>>})
ReportIsDir(kind) ==
    TreeOf({<<report_path(kind, Str("md"), 0) \o <<Str("x")>>, File(<<>>, TRUE)>>})

\* a project with a file whose name is the byte 80 and ".py": os.walk hands
\* the name over with the lone surrogate U+DC80 for that byte
SurrogateProject ==
    TreeOf({<<Cwd \o <<(<<56448>> \o Str(".py"))>>, File(Str("# TODO x") \o <<LF>>, TRUE)>>})

\* a project with JSON files: one that parses, one cut short, an empty object
JsonProject ==
    TreeOf({<<Cwd \o <<Str("good.json")>>, File(Str("{\"a\": [1.5], \"b\": {\"c\": null}}"), TRUE)>>,
            <<Cwd \o <<Str("bad.json")>>, File(Str("{\"a\": "), TRUE)>>,
            <<Cwd \o <<Str("e.json")>>, File(Str("{}"), TRUE)>>})

\* a project with Markdown files: one with a URL twice and another URL, one
\* with that URL again, one with none
LinkProject ==
    TreeOf({<<Cwd \o <<Str("a.md")>>,
              File(Str("see http://b.io/x, HTTPS://a.io and (http://b.io/x)."), TRUE)>>,
            <<Cwd \o <<Str("b.md")>>, File(Str("as in http://b.io/x"), TRUE)>>,
            <<Cwd \o <<Str("c.md")>>, File(Str("no link: http:// x"), TRUE)>>})

\* a project with Python files: one of two functions, of six parameters and of
\* none, one of a single function of six, one that does not parse
ParamsProject ==
    TreeOf({<<Cwd \o <<Str("m.py")>>,
              File(Str("def f(a, b, c, *d, e, **k): pass") \o <<LF>>
                   \o Str("def g(): pass") \o <<LF>>, TRUE)>>,
            <<Cwd \o <<Str("one.py")>>,
              File(Str("def h(a, b, c, d, e, f): pass") \o <<LF>>, TRUE)>>,
            <<Cwd \o <<Str("bad.py")>>, File(Str("def f(a, **): pass") \o <<LF>>, TRUE)>>})

\* --max-params: the default, and a lower one
MaxParamsDefault == 6
MaxParamsArgs == {MaxParamsDefault, 1}

CmdTrees ==
    {CsvProject, BinaryCsvProject, OutDirIsFile, ReportIsDir(Str("csv-summary")),
     SurrogateProject, JsonProject}

\* --max-files: the default, and 1
MaxFilesArgs == {50, 1}

\* --days: the default 7, and a number of 305 digits
DaysArgs == {Str("7"), Rep(57, MaxFloatDigits + 1)}

\* --path: the default, a name that is not there, and a file's
CmdPaths == {<<CURDIR>>, <<Str("gone")>>, <<Str("a.py")>>}

InitCmds ==
    /\ fs \in CmdTrees
    /\ envSteps = {}
    /\ ReadIdle /\ WalkIdle /\ MainIdle
    /\ chunk = <<>> /\ binary = None /\ bpc = "done"

\* the process is new: main has not run in it
Fresh == ret = <<>>

NextCmds ==
    \/ Fresh /\ \E p \in CmdPaths : MainStart(p)
    \/ Fresh /\ \E p \in CmdPaths : CsvSummaryStart(p)
    \/ Fresh /\ \E p \in CmdPaths, d \in DaysArgs : RecentFilesStart(p, d)
    \/ Fresh /\ \E p \in CmdPaths, mf \in MaxFilesArgs : JsonSchemaStart(p, mf)
    \/ WalkDir
    \/ WalkFile
    \/ WalkDescend
    \/ WalkEnd
    \/ TodoRead
    \/ ReadGetSize
    \/ ReadOpen
    \/ ReadRead
    \/ ReadFinish
    \/ TodoLines
    \/ TodoRender
    \/ CsvSummaryOpen
    \/ CsvSummaryRows
    \/ CsvSummaryReturn
    \/ RecentFilesEntry
    \/ RecentFilesReturn
    \/ JsonSchemaBreak
    \/ JsonSchemaRead
    \/ JsonSchemaText
    \/ JsonSchemaReturn
    \/ Tick(MaxClock)
    \/ MainReportPath
    \/ MainWrite
    \/ MainPrint
    \/ ProcessExit

SpecCmds == InitCmds /\ [][NextCmds]_vars

----------------------------------------------------------------------------
(* One process running link-check-md or many-params-scan over a project     *)

\* a project with files of the same bytes: two that can be read, in two
\* directories, and one that cannot; two of three bytes; and one like no other
DupProject ==
    TreeOf({<<Cwd \o <<Str("a.txt")>>, File(Str("AB"), TRUE)>>,
            <<Cwd \o <<Str("n.txt")>>, File(Str("AB"), FALSE)>>,
            <<Cwd \o <<Str("big")>>, File(<<0, 1, 2>>, TRUE)>>,
            <<Cwd \o <<Str("sub"), Str("b.txt")>>, File(Str("AB"), TRUE)>>,
            <<Cwd \o <<Str("sub"), Str("big")>>, File(<<0, 1, 2>>, TRUE)>>,
            <<Cwd \o <<Str("sub"), Str("c")>>, File(Str("BA"), TRUE)>>})

\* --max-bytes: the default, and one under the size of the larger files
DupMaxBytesDefault == 1000000
DupMaxBytesArgs == {DupMaxBytesDefault, 2}

ScanTrees == {LinkProject, ParamsProject, DupProject}

InitScans ==
    /\ fs \in ScanTrees
    /\ envSteps = {}
    /\ ReadIdle /\ WalkIdle /\ MainIdle
    /\ chunk = <<>> /\ binary = None /\ bpc = "done"

NextScans ==
    \/ Fresh /\ \E p \in CmdPaths, offline \in BOOLEAN : LinkCheckStart(p, offline)
    \/ LinkCheckRead
    \/ LinkCheckText
    \/ LinkCheckOffline
    \/ LinkCheckHead
    \/ LinkCheckReturn
    \/ Fresh /\ \E p \in CmdPaths, mp \in MaxParamsArgs : ManyParamsStart(p, mp)
    \/ ManyParamsSpansRead
    \/ ManyParamsSpans
    \/ ManyParamsRead
    \/ ManyParamsWalk
    \/ ManyParamsReturn
    \/ Fresh /\ \E p \in CmdPaths, mb \in DupMaxBytesArgs : DupContentsStart(p, mb)
    \/ DupContentsEntry
    \/ DupContentsReturn
    \/ WalkDir
    \/ WalkFile
    \/ WalkDescend
    \/ WalkEnd
    \/ ReadGetSize
    \/ ReadOpen
    \/ ReadRead
    \/ ReadFinish
    \/ MainReportPath
    \/ MainWrite
    \/ MainPrint
    \/ ProcessExit

SpecScans == InitScans /\ [][NextScans]_vars

----------------------------------------------------------------------------
(* One process running dir-size-report, and another deleting a file         *)

\* files in a directory, in a directory of it and in a directory of that, one
\* of them not readable; two directories come to the same size
SizeTree ==
    TreeOf({<<Cwd \o <<Str("a")>>, File(Str("abc"), TRUE)>>,
            <<Cwd \o <<Str("sub"), Str("b")>>, File(Str("x"), FALSE)>>,
            <<Cwd \o <<Str("sub"), Str("c")>>, File(Str("yz"), TRUE)>>,
            <<Cwd \o <<Str("sub"), Str("deep"), Str("d")>>, File(Str("12345"), TRUE)>>})

\* the largest directory comes last in the walk
SizeTreeRising ==
    TreeOf({<<Cwd \o <<Str("a")>>, File(Str("a"), TRUE)>>,
            <<Cwd \o <<Str("b")>>, File(<<>>, TRUE)>>,
            <<Cwd \o <<Str("sub"), Str("c")>>, File(Str("0123456789ab"), TRUE)>>})

SizeTrees == {SizeTree, SizeTreeRising}

SizePaths == {<<CURDIR>>, <<Str("sub")>>}

InitSizes ==
    /\ fs \in SizeTrees
    /\ envSteps = {}
    /\ ReadIdle /\ WalkIdle /\ MainIdle
    /\ chunk = <<>> /\ binary = None /\ bpc = "done"

NextSizes ==
    \/ Fresh /\ \E p \in SizePaths : DirSizeStart(p)
    \/ WalkDir
    \/ WalkFile
    \/ WalkDescend
    \/ WalkEnd
    \/ DirSizeEntry
    \/ EnvUnlinkYielded
    \/ DirSizeReturn
    \/ MainReportPath
    \/ MainWrite
    \/ MainPrint
    \/ ProcessExit

SpecSizes == InitSizes /\ [][NextSizes]_vars

----------------------------------------------------------------------------
(* One process started on a command line: a wrapper script's, or any other  *)

\* the subcommands a command line may name: the registered ones, and one
\* that is not
CommandNames == {Registered[i].name : i \in DOMAIN Registered} \cup {"nope"}

\* what may follow the subcommand
ExtraArgs ==
    {<<>>, <<"--path", "gone">>, <<"--name", "adr">>, <<"--name", "api-spec">>,
     <<"--name", "nope">>, <<"--file", "a.py">>}

\* the subcommands of src/scripts
Wrappers == {"csv-summary", "dir-size-report", "duplicate-file-contents-scan", "template-gen"}

InitDispatch ==
    /\ fs \in {TreeOf({}), OutDirIsFile}
    /\ envSteps = {}
    /\ ReadIdle /\ WalkIdle /\ MainIdle
    /\ chunk = <<>> /\ binary = None /\ bpc = "done"

NextDispatch ==
    \/ \E X \in Wrappers, extra \in ExtraArgs : RunFromWrapper(X, extra)
    \/ \E X \in CommandNames, extra \in ExtraArgs : MainParse(<<X>> \o extra)
    \/ MainParse(<<>>)
    \/ Dispatch
    \/ DispatchReportPath
    \/ MainWrite
    \/ MainPrint
    \/ ProcessExit

SpecDispatch == InitDispatch /\ [][NextDispatch]_vars

----------------------------------------------------------------------------
(* Processes one after the other, each running main once over the docs of  *)
(* the same project: the reports land beside docs, not in it                *)

Docs == Cwd \o <<Str("docs")>>

\* two files _read_first_md takes for the changelog, in one directory
TwoChangelogs ==
    TreeOf({<<Docs \o <<Str("CHANGELOG.md")>>, File(Str("# One") \o <<LF>>, TRUE)>>,
            <<Docs \o <<Str("changelog-old.md")>>,
              File(Str("# Old") \o <<LF>> \o Str("## Older") \o <<LF>>, TRUE)>>})

\* files of two directories, for the sizes
TwoDirs ==
    TreeOf({<<Docs \o <<Str("a.md")>>, File(Str("abc"), TRUE)>>,
            <<Docs \o <<Str("sub"), Str("b.md")>>, File(Str("abc"), TRUE)>>})

\* docs is there, with nothing in it
EmptyDocs == (Docs :> Dir) @@ TreeOf({})

\* a text file with a CR LF, a lone CR and a letter of two bytes, and an
\* empty one
CR == 13
TxtDocs ==
    TreeOf({<<Docs \o <<Str("n.txt")>>, File(<<97, CR, LF, 195, 169, CR, 99>>, TRUE)>>,
            <<Docs \o <<Str("e.txt")>>, File(<<>>, TRUE)>>})

\* a file whose name is the byte 80 and ".py", which os.walk hands over as the
\* lone surrogate U+DC80
SurrogateDocs ==
    TreeOf({<<Docs \o <<(<<56448>> \o Str(".py"))>>, File(Str("# TODO x") \o <<LF>>, TRUE)>>})

RunTrees == {TwoChangelogs, TwoDirs, EmptyDocs, TxtDocs, SurrogateDocs}

RunPaths == {<<Str("docs")>>}

InitRuns ==
    /\ fs \in RunTrees
    /\ envSteps = {}
    /\ ReadIdle /\ WalkIdle /\ MainIdle
    /\ chunk = <<>> /\ binary = None /\ bpc = "done"

\* the process before has exited, and another may run
MayRun == Len(exits) = Len(ret) /\ Len(ret) < MaxInvocations

NextRuns ==
    \/ MayRun /\ \E p \in RunPaths : ChangelogStart(p)
    \/ MayRun /\ \E p \in RunPaths : DirSizeStart(p)
    \/ MayRun /\ \E p \in RunPaths : FileIndexStart(p)
    \/ MayRun /\ \E p \in RunPaths : MainStart(p)
    \/ MayRun /\ \E p \in RunPaths : TxtToMdStart(p)
    \/ WalkDir
    \/ WalkFile
    \/ WalkDescend
    \/ WalkEnd
    \/ TodoRead
    \/ TodoLines
    \/ TodoRender
    \/ TxtToMdRead
    \/ TxtToMdText
    \/ TxtToMdReturn
    \/ FileIndexEntry
    \/ FileIndexReturn
    \/ ChangelogSkip
    \/ ChangelogRead
    \/ ReadGetSize
    \/ ReadOpen
    \/ ReadRead
    \/ ReadFinish
    \/ ChangelogText
    \/ ChangelogReturn
    \/ DirSizeEntry
    \/ DirSizeReturn
    \/ Tick(MaxClock)
    \/ MainReportPath
    \/ MainWrite
    \/ MainPrint
    \/ ProcessExit

SpecRuns == InitRuns /\ [][NextRuns]_vars

----------------------------------------------------------------------------
(* iter_files called again and again by one caller over one tree *)

MaxCalls == 2

\* trees with files at the root and below it, in a pruned directory, and
\* with a link to a directory
TwiceTrees ==
    {TreeOf({<<Cwd \o <<Str("src"), Str("a.py")>>, File(<<>>, TRUE)>>,
             <<Cwd \o <<Str("src"), Str("B.PY")>>, File(<<>>, TRUE)>>,
             <<Cwd \o <<Str("src"), Str(".env")>>, File(<<>>, TRUE)>>}),
     TreeOf({<<Cwd \o <<Str("a.py")>>, File(<<>>, TRUE)>>,
             <<Cwd \o <<Str("src"), Str("a.py")>>, File(<<>>, TRUE)>>,
             <<Cwd \o <<Str(".git"), Str("src"), Str("a.py")>>, File(<<>>, TRUE)>>}),
     TreeOf({<<Cwd \o <<Str("src"), Str("ln")>>, DirLink>>,
             <<Cwd \o <<Str("build")>>, File(<<>>, TRUE)>>})}

InitTwice ==
    /\ fs \in TwiceTrees
    /\ envSteps = {}
    /\ ReadIdle /\ WalkIdle /\ MainIdle
    /\ chunk = <<>> /\ binary = None /\ bpc = "done"

TwiceRoots == {<<CURDIR>>, <<Str("src")>>}

TwiceExts == {None, Some({Str(".py")})}

NextTwice ==
    \/ /\ wpc = "idle"
       /\ \E p \in TwiceRoots, exts \in TwiceExts : WalkStart(p, exts)
       /\ UNCHANGED <<walks, fsVars, readVars, binVars, mainVars>>
    \/ /\ Len(walks) + 1 < MaxCalls
       /\ \E p \in TwiceRoots, exts \in TwiceExts : WalkAgain(p, exts)
    \/ WalkDir
    \/ WalkFile
    \/ WalkDescend
    \/ WalkEnd
    \/ WalkResume

SpecTwice == InitTwice /\ [][NextTwice]_vars

----------------------------------------------------------------------------
(* iter_files run to its end over trees with links to directories above    *)
(* them; the caller asks for entry after entry                              *)

LinkTrees ==
    {TreeOf({<<Cwd \o <<Str("b.py")>>, File(<<>>, TRUE)>>,
             <<Cwd \o <<Str("src"), Str("a.py")>>, File(<<>>, TRUE)>>,
             <<Cwd \o <<Str("src"), Str("ln")>>, LinkTo(Cwd)>>}),
     TreeOf({<<Cwd \o <<Str("src"), Str("sub"), Str("a.py")>>, File(<<>>, TRUE)>>,
             <<Cwd \o <<Str("src"), Str("sub"), Str("up")>>, LinkTo(Cwd \o <<Str("src")>>)>>}),
     TreeOf({<<Cwd \o <<Str("src"), Str("a.py")>>, File(<<>>, TRUE)>>,
             <<Cwd \o <<Str("src"), Str("B.PY")>>, File(<<>>, TRUE)>>,
             <<Cwd \o <<Str("src"), Str("ln")>>, LinkTo(Cwd \o <<Str("src")>>)>>})}

\* roots: the working directory, a directory, and a link to one above it
LinkRoots == {<<CURDIR>>, <<Str("src")>>, <<Str("src"), Str("ln")>>}

InitLinks ==
    /\ fs \in LinkTrees
    /\ envSteps = {}
    /\ ReadIdle /\ WalkIdle /\ MainIdle
    /\ chunk = <<>> /\ binary = None /\ bpc = "done"

NextLinks ==
    \/ /\ wpc = "idle"
       /\ \E p \in LinkRoots, exts \in TwiceExts : WalkStart(p, exts)
       /\ UNCHANGED <<walks, fsVars, readVars, binVars, mainVars>>
    \/ WalkDir
    \/ WalkFile
    \/ WalkDescend
    \/ WalkEnd
    \/ WalkResume

\* the generator and its caller are one thread: a step that can be taken is
SpecLinks == InitLinks /\ [][NextLinks]_vars /\ WF_vars(NextLinks)

----------------------------------------------------------------------------
(* Claims *)

\* the number of bytes of c that lie outside S
CountOutside(c, S) == Cardinality({i \in 1..Len(c) : c[i] \notin S})

\* the set of text bytes as the claim lists it
ClaimTextBytes == {7, 8, 9, 10, 12, 13, 27} \cup {b \in 0..255 : b >= 32}

\* C4: is_binary_bytes(s) is true iff s contains byte 0x00 or more than 30% of
\* the bytes of s (relative to max(1, len(s))) lie outside
\* {7,8,9,10,12,13,27} \cup [0x20..0xFF]; a sample with exactly 30% such bytes
\* is not binary, and the empty sample is not binary.
C4_BinaryIffNullOrOver30 ==
    bpc = "done" =>
        LET n == CountOutside(chunk, ClaimTextBytes)
            m == Max(1, Len(chunk))
            hasNull == 0 \in {chunk[i] : i \in 1..Len(chunk)}
        IN  /\ IsSome(binary) /\ Val(binary) \in BOOLEAN
            /\ Val(binary) <=> (hasNull \/ 10 * n > 3 * m)
            /\ (~hasNull /\ 10 * n = 3 * m) => Val(binary) = FALSE
            /\ chunk = <<>> => Val(binary) = FALSE

\* a sample of ten bytes, exactly three of them non-text and none null, was
\* classified as not binary
C4_Witness ==
    /\ bpc = "done"
    /\ Len(chunk) = 10
    /\ CountOutside(chunk, ClaimTextBytes) = 3
    /\ 0 \notin {chunk[i] : i \in 1..Len(chunk)}
    /\ binary = Some(FALSE)

----------------------------------------------------------------------------
(* Claims about read_text_safe, under SpecRead *)

\* the call has ended, one way or the other
ReadEnded == rpc \in {"returned", "raised"}

\* no other process touched the file during the call, and the device did not
\* fail
Undisturbed == envSteps = {}

\* the file at the path when the call began
SnapFile == Val(snap)[path]
SnapIsFile == IsSome(snap) /\ path \in DOMAIN Val(snap) /\ SnapFile.kind = "file"

\* C2: if the file's size is strictly greater than max_bytes, read_text_safe
\* returns None whatever the content; a file of exactly max_bytes bytes is not
\* rejected by the size check (the call goes on to open it).
C2_OversizeReturnsNone ==
    /\ (ReadEnded /\ IsSome(size) /\ Val(size) > max_bytes)
           => (rpc = "returned" /\ result = None)
    /\ (ReadEnded /\ envSteps = {} /\ SnapIsFile /\ Len(SnapFile.data) > max_bytes)
           => (rpc = "returned" /\ result = None /\ data = None)
    /\ (rpc # "getsize" /\ IsSome(size) /\ Val(size) = max_bytes)
           => (rpc \in {"open", "read", "classify"} \/ IsSome(data) \/ IsSome(exc))

\* a file of SampleLen + 1 text bytes read with max_bytes = SampleLen gave None
C2_Witness ==
    /\ rpc = "returned" /\ envSteps = {} /\ SnapIsFile
    /\ max_bytes = SampleLen
    /\ SnapFile.data = Rep(65, SampleLen + 1)
    /\ result = None

\* C3: for a readable file of size at most max_bytes, read_text_safe returns
\* None iff is_binary_bytes of the file's first 1024 bytes is true: a null
\* byte among the first 1024 bytes forces None, and bytes at offset 1024 or
\* later (null bytes included) do not change None versus content.
C3_NoneIffSampleBinary ==
    (rpc = "returned" /\ Undisturbed /\ SnapIsFile /\ SnapFile.readable
        /\ Len(SnapFile.data) <= max_bytes)
    => LET bytes == SnapFile.data
           sample == Prefix(bytes, 1024)
       IN  /\ (result = None) <=> is_binary_bytes(sample)
           /\ (\E i \in 1..Len(sample) : bytes[i] = 0) => result = None

\* a file whose only null byte sits at offset 1024 was returned as text
C3_Witness ==
    /\ rpc = "returned" /\ Undisturbed /\ SnapIsFile /\ SnapFile.readable
    /\ SnapFile.data = Rep(65, 1024) \o <<0>>
    /\ max_bytes > 1024
    /\ IsSome(result)

\* C5: read_text_safe never raises to its caller; a failure at any step (size
\* lookup, open, read; a file that vanishes or becomes unreadable between the
\* size check and the read included) gives the return value None.
C5_NeverRaises ==
    /\ rpc # "raised"
    /\ IsSome(exc) => (rpc = "returned" /\ result = None)

\* the size was looked up, then the file lost its read permission, and the
\* call returned None
C5_Witness ==
    /\ rpc = "returned" /\ IsSome(size) /\ Val(size) <= max_bytes
    /\ exc = Some("PermissionError") /\ "chmod" \in envSteps
    /\ result = None

\* C6: when read_text_safe returns a string, it is the UTF-8 decoding, with
\* ill-formed sequences replaced and never an error, of all the bytes of the
\* file, not of a prefix such as the first 1024 or the first max_bytes bytes.
C6_WholeFileDecoded ==
    (rpc = "returned" /\ IsSome(result) /\ Exists(path))
    => LET bytes == fs[path].data
           text == Val(result)
           replaced == \E i \in 1..Len(text) : text[i] = REPLACEMENT
       IN  /\ text = DecodeFrom(bytes, 1)
           /\ Len(text) <= Len(bytes)
           /\ ~replaced => Utf8Encode(text) = bytes
           /\ Utf8Encode(text) # bytes => replaced

\* a file of more than 1024 bytes that ends in an ill-formed sequence came
\* back whole, with the replacement character at its end
C6_Witness ==
    /\ rpc = "returned" /\ IsSome(result) /\ Exists(path)
    /\ fs[path].data = Rep(65, 1024) \o <<195>>
    /\ Val(result) = Rep(65, 1024) \o <<REPLACEMENT>>

----------------------------------------------------------------------------
(* Claims about iter_files, under SpecWalk *)

\* the exclusion set as the claim lists it
ClaimExclusionSet ==
    {Str(".git"), Str("node_modules"), Str(".venv"), Str("venv"), Str("dist"),
     Str("build"), Str("__pycache__"), Str(".idea"), Str(".vscode"),
     Str(".pytest_cache"), Str(".mypy_cache")}

\* a name the exclusion rule covers: in the set, or starting with "."
ClaimExcluded(name) == name \in ClaimExclusionSet \/ (name # <<>> /\ name[1] = 46)

\* the directory components of a relative path: all but the last
DirComponents(rel) == {rel[k] : k \in 1..(Len(rel) - 1)}

\* the absolute paths yielded so far
YieldedFull == {yielded[i][1] : i \in 1..Len(yielded)}

\* C1: no entry yielded by iter_files(root) has a relative path with a
\* directory component that is in the exclusion set or starts with ".", at any
\* depth; pruning comes before descent, so no directory below an excluded one
\* is listed either, whatever its own name.
C1_NoExcludedComponent ==
    /\ \A i \in 1..Len(yielded) :
          \A d \in DirComponents(yielded[i][2]) : ~ClaimExcluded(d)
    /\ wpc \in {"files", "yielded"} =>
          \A k \in (Len(base) + 1)..Len(root) : ~ClaimExcluded(root[k])
    /\ \A i \in 1..Len(stack) :
          \A k \in (Len(base) + 1)..Len(stack[i]) : ~ClaimExcluded(stack[i][k])

\* the walk of the working directory ended; the tree holds .git/src/a.py,
\* which was not yielded, and a file that was
C1_Witness ==
    /\ wpc = "done" /\ base = Cwd
    /\ (Cwd \o <<Str(".git"), Str("src"), Str("a.py")>>) \in DOMAIN fs
    /\ (Cwd \o <<Str(".git"), Str("src"), Str("a.py")>>) \notin YieldedFull
    /\ yielded # <<>>

\* the extension of a name as the claim has it: from the last dot on, lower
\* case, when something other than dots comes before that dot
ClaimExt(name) ==
    IF \E i \in 1..Len(name) :
          /\ name[i] = 46
          /\ \A j \in (i + 1)..Len(name) : name[j] # 46
          /\ \E k \in 1..(i - 1) : name[k] # 46
    THEN LET i == CHOOSE i \in 1..Len(name) :
                     name[i] = 46 /\ \A j \in (i + 1)..Len(name) : name[j] # 46
         IN  [k \in 1..(Len(name) - i + 1) |->
                 LET c == name[i + k - 1]
                 IN  IF c \in 65..90 THEN c + 32 ELSE c]
    ELSE <<>>

\* p lies below the walked root and every directory from the root down to it
\* is a real directory, those below the root with names the rule lets pass
ReachableFrom(b, p) ==
    /\ Len(p) > Len(b) /\ SubSeq(p, 1, Len(b)) = b
    /\ b \in DOMAIN fs /\ fs[b].kind \in {"dir", "link"}
    /\ \A k \in (Len(b) + 1)..(Len(p) - 1) :
          /\ fs[SubSeq(p, 1, k)].kind = "dir"
          /\ ~ClaimExcluded(p[k])

\* the files iter_files is to yield
ExpectedFiles ==
    {p \in DOMAIN fs :
        /\ fs[p].kind = "file"
        /\ ReachableFrom(base, p)
        /\ IsSome(include_exts) => ClaimExt(p[Len(p)]) \in Val(include_exts)}

C8_FileNamesNotExcluded ==
    (wpc = "done" /\ include_exts = None)
    => \A p \in DOMAIN fs :
          (fs[p].kind = "file" /\ ReachableFrom(base, p) /\ ClaimExcluded(p[Len(p)]))
              => \E i \in 1..Len(yielded) :
                    /\ yielded[i][1] = p
                    /\ yielded[i][2] = SubSeq(p, Len(base) + 1, Len(p))

\* a file named build and a file named .env were both yielded
C8_Witness ==
    /\ wpc = "done" /\ include_exts = None
    /\ \E i \in 1..Len(yielded) : yielded[i][2] = <<Str("build")>>
    /\ \E i \in 1..Len(yielded) : yielded[i][2] = <<Str(".env")>>

----------------------------------------------------------------------------
(* Claims about the scenario and the reports, under SpecMain *)

\* the scenario's tree, as it is until a report is written into it
Scenarios == {Scenario(PyWithTodo), Scenario(PyPlain)}
InScenario == fs \in Scenarios /\ base = Cwd /\ wpc # "idle"

\* the str a file of ASCII bytes decodes to
AsciiText(p) == fs[p].data

\* what read_text_safe returned for the scenario's two files
ScenarioReads ==
    /\ (rpc = "returned" /\ path = APy) => result = Some(AsciiText(APy))
    /\ (rpc = "returned" /\ path = BBin) => result = None

\* C9 as stated: for a root with a.py (40 text bytes), b.bin (00 01 02) and
\* .git/c.py, iter_files(root) yields exactly one entry, a.py; read_text_safe
\* returns a.py's text and None for b.bin.
C9_ScenarioYieldsOnlyAPy ==
    InScenario =>
       /\ wpc = "done" => {yielded[i][2] : i \in 1..Len(yielded)} = {<<Str("a.py")>>}
       /\ wpc = "done" => Len(yielded) = 1
       /\ ScenarioReads

\* C9: for that root, iter_files(root) without an extension filter yields
\* exactly two entries, a.py and b.bin, once each and in either order, and
\* never .git/c.py; read_text_safe returns a.py's text and None for b.bin.
C9_ScenarioYieldsAPyAndBBin ==
    InScenario =>
       /\ \A i \in 1..Len(yielded) :
             yielded[i] \in {<<APy, <<Str("a.py")>>>>, <<BBin, <<Str("b.bin")>>>>}
       /\ \A i, j \in 1..Len(yielded) : yielded[i] = yielded[j] => i = j
       /\ wpc = "done" => Len(yielded) = 2
       /\ ScenarioReads

\* a.py is 40 bytes and was read as text (its TODO line is among the
\* findings); b.bin, the second entry, has just been read as None
C9_Witness ==
    /\ InScenario
    /\ Len(fs[APy].data) = 40
    /\ Len(yielded) = 2 /\ yielded[1][1] = APy /\ yielded[2][1] = BBin
    /\ rpc = "returned" /\ path = BBin /\ result = None /\ exc = None
    /\ findings = << <<<<Str("a.py")>>, 2, Str("# TODO: tidy this up")>> >>

\* the lines of a report body
BodyLines(b) == {SplitLines(b)[i] : i \in 1..Len(SplitLines(b))}

\* C10 as stated: a report is never read again by the tool: of two
\* invocations run from the same working directory with the default --path,
\* over the same project files, the later one's body has the lines of the
\* earlier one's, whatever reports were written into context_out in between.
C10_ReportsNeverReadAgain ==
    \A i, j \in 1..Len(bodies) :
       (i < j /\ bodies[i].path = <<CURDIR>> /\ bodies[j].path = <<CURDIR>>)
           => BodyLines(bodies[j].body) = BodyLines(bodies[i].body)

----------------------------------------------------------------------------
(* Claims about the command handlers, under SpecCmds *)

\* the str w occurs in the str t
Mentions(t, w) == \E i \in 1..(Len(t) - Len(w) + 1) : SubSeq(t, i, i + Len(w) - 1) = w

\* the files below the scanned root that cannot be opened for reading, and
\* those that can, by their paths relative to the root
RelOf(p) == SubSeq(p, Len(base) + 1, Len(p))
Unreadable == {p \in DOMAIN fs : fs[p].kind = "file" /\ ~fs[p].readable /\ ReachableFrom(base, p)}
Readable == {p \in DOMAIN fs : fs[p].kind = "file" /\ fs[p].readable /\ ReachableFrom(base, p)}

\* the subcommands whose reports are made from the content of the files
ContentCmds == {"todo-scan", "csv-summary", "txt-to-md", "changelog-summary"}

\* C11 as stated: an unreadable file among the scanned ones changes a
\* command's report only by the absence of its findings: main does not fail,
\* the body the handler returns has no line, error line or other, that names
\* the unreadable file, and csv-summary still has its line for every CSV file
\* that can be read.
C11_UnreadableFileLeavesNoTrace ==
    /\ \A i \in 1..Len(ret) : ret[i] = 0
    /\ (IsSome(content) /\ Val(args).cmd \in ContentCmds) =>
          \A p \in Unreadable : ~Mentions(Val(content), PathStr(RelOf(p)))
    /\ (IsSome(content) /\ Val(args).cmd = "csv-summary") =>
          \A p \in Readable :
             FileExt(p[Len(p)]) = Str(".csv")
                 => Mentions(Val(content), Str("- ") \o PathStr(RelOf(p)) \o Str(": "))

\* read_text_safe, with its default ceiling, declines the file at p: it is
\* larger than the ceiling, or its first 1024 bytes test as binary
Declined(p) ==
    \/ Len(fs[p].data) > DefaultMaxBytes
    \/ is_binary_bytes(Prefix(fs[p].data, SampleLen))

\* C12 as stated: no command bypasses read_text_safe: a handler never holds
\* open, by a route of its own, a file that read_text_safe would decline, and
\* the body it returns has no line made from such a file.
C12_NoBypassOfSafeReader ==
    /\ IsSome(handle) => ~Declined(Val(handle))
    /\ IsSome(content) =>
          \A p \in Readable : Declined(p) => ~Mentions(Val(content), PathStr(RelOf(p)))

\* the report files in context_out
Reports ==
    {p \in DOMAIN fs : Len(p) = Len(OutDir) + 1 /\ SubSeq(p, 1, Len(OutDir)) = OutDir
                       /\ fs[p].kind = "file"}

Diagnostic == Str("Encountered an unexpected error:")

\* C13: main returns 0 only after the handler returned its body, the one
\* report was written with it and its path was printed; when the handler,
\* report_path or write_text raised, main printed the diagnostic and no path
\* and returned 1; and the process exits with the very code main returned.
C13_ReturnCodeTellsOutcome ==
    /\ Len(ret) <= 1 /\ Len(exits) <= Len(ret)
    /\ \A i \in 1..Len(exits) : exits[i] = ret[i]
    /\ ret # <<>> => ret[1] \in {0, 1}
    /\ ret = <<0>> =>
          /\ IsSome(content) /\ IsSome(out)
          /\ Reports = {Val(out)}
          /\ fs[Val(out)].data = Utf8Encode(Val(content))
          /\ stdout = << <<47>> \o PathStr(Val(out)) >>
    /\ ret = <<1>> =>
          /\ stdout = <<Diagnostic>>
          /\ \/ content = None
             \/ out = None
             \/ IsSome(WriteTextError(Val(out), Val(content)))

\* the handler of recent-files-report raised on its first line (--days too
\* large for a float): no body, the diagnostic alone printed, exit status 1
C13_Witness ==
    /\ ret = <<1>> /\ exits = <<1>>
    /\ Val(args).cmd = "recent-files-report" /\ FloatOverflow(Val(args).days)
    /\ content = None /\ out = None
    /\ stdout = <<Diagnostic>>
    /\ Reports = {}

\* the steps of main, in the order the code takes them: the handler (scan),
\* report_path, write_text, print; an exception leads back to idle
MainOrder ==
    {<<"idle", "scan">>, <<"scan", "report_path">>, <<"report_path", "write">>,
     <<"write", "print">>, <<"print", "idle">>,
     <<"report_path", "idle">>, <<"write", "idle">>}

\* C14: within one invocation the handler returns its complete body, then the
\* destination is computed (context_out made if need be), then write_text is
\* called, once, then the path is printed; the filesystem is not touched
\* before the handler has returned, nor at all when the handler raises, and
\* the body is not touched after.
C14_HandlerThenPathThenWriteThenPrint ==
    [][/\ mpc' # mpc => <<mpc, mpc'>> \in MainOrder
       /\ fs' # fs => mpc \in {"report_path", "write"}
       /\ (fs' # fs /\ mpc = "report_path") =>
             /\ OutDir \notin DOMAIN fs
             /\ fs' = [p \in DOMAIN fs \cup {OutDir} |-> IF p = OutDir THEN Dir ELSE fs[p]]
       /\ (fs' # fs /\ mpc = "write") =>
             \A p \in DOMAIN fs' : p # Val(out) => (p \in DOMAIN fs /\ fs'[p] = fs[p])
       /\ mpc \in {"report_path", "write", "print"} => (IsSome(content) /\ content' = content)
       /\ mpc \in {"write", "print"} => (IsSome(out) /\ out' = out)
       /\ Len(stdout') > Len(stdout) =>
             \/ mpc = "print" /\ stdout' = Append(stdout, <<47>> \o PathStr(Val(out)))
             \/ stdout' = Append(stdout, Diagnostic) /\ ret' = Append(ret, 1)
      ]_vars

\* the report has been written and its path is about to be printed
C14_Witness ==
    /\ mpc = "print" /\ stdout = <<>> /\ ret = <<>>
    /\ Reports = {Val(out)}
    /\ fs[Val(out)].data = Utf8Encode(Val(content))
    /\ Val(args).cmd = "csv-summary"

----------------------------------------------------------------------------
(* Claims about runs over the same tree, under SpecRuns *)

\* two reports of the same subcommand over the same --path
SameRun(i, j) ==
    /\ i \in 1..Len(bodies) /\ j \in 1..Len(bodies) /\ i < j
    /\ bodies[i].cmd = bodies[j].cmd /\ bodies[i].path = bodies[j].path

\* C15 as stated: whatever the orders in which iter_files yields the files of
\* the same unchanged tree, a command's report has the same set of findings:
\* two runs of a command over docs give bodies with the same lines, in
\* whatever order.
C15_SameFindingsInAnyOrder ==
    \A i, j \in 1..Len(bodies) :
       SameRun(i, j) => BodyLines(bodies[i].body) = BodyLines(bodies[j].body)

\* the non-empty lines of a report body, in their order
Printed(b) == SelectSeq(SplitLines(b), LAMBDA l : Strip(l) # <<>>)

\* the report ends with a heading: nothing is said below it
EndsWithHeading(b) == Printed(b) # <<>> /\ Head(Printed(b)[Len(Printed(b))]) = 35

\* the root a run scanned is a directory with no entry
EmptyRoot(p) ==
    /\ Exists(Abspath(p)) /\ fs[Abspath(p)].kind = "dir"
    /\ Children(Abspath(p)) = {}

\* C16 as stated: when the scan root is an empty directory, every command's
\* report says that nothing was found: it never is a heading with an empty
\* list below it.
C16_EmptyRootReportsNothingFound ==
    \A i \in 1..Len(bodies) :
       EmptyRoot(bodies[i].path) => ~EndsWithHeading(bodies[i].body)

\* the reports: the files of context_out
ReportFiles == {p \in DOMAIN fs : fs[p].kind = "file" /\ Len(p) = Len(OutDir) + 1
                                  /\ SubSeq(p, 1, Len(OutDir)) = OutDir}

\* C17 as stated: a file written by write_text has only LF line endings: no
\* report holds a CR byte, whatever the scanned files held.
C17_NoCarriageReturnWritten ==
    \A p \in ReportFiles : \A i \in 1..Len(fs[p].data) : fs[p].data[i] # CR

\* what reading the file p back as UTF-8 text gives, in the filesystem g
ReadBack(g, p) == Utf8DecodeReplace(g[p].data)

\* the step is write_text(out, content), out not being a directory
WriteTextStep == mpc = "write" /\ ~(Exists(Val(out)) /\ fs[Val(out)].kind # "file")

Kinds == {Str("todo-scan"), Str("file-index"), Str("changelog-summary"),
          Str("csv-summary"), Str("csv")}
Exts == {Str("md"), Str("txt")}

\* seconds of the day, on both sides of a new minute and of a new hour
StampTimes == {0, 1, 59, 60, 3600, 86399}

\* the calls report_path(k, e) at the second t
Calls == Kinds \X Exts \X StampTimes

\* each of them with what it returns
CallPaths == {<<d, report_path(d[1], d[2], d[3])>> : d \in Calls}

\* C19: report_path(kind, ext) returns {cwd}/context_out/{kind}_{stamp}.{ext}
\* for the second of the call, and two calls return the same path if and only
\* if they have the same kind, the same extension and the same second: so it
\* is for each call main makes, against the reports written before it and
\* against every call of Calls.
C19_SamePathIffSameKindExtSecond ==
    [][(mpc = "report_path" /\ mpc' = "write") =>
         LET k == Str(Val(args).cmd)
             md == Str("md")
             p == Val(out')
         IN  /\ PathStr(p) = PathStr(Cwd) \o Str("/context_out/") \o k \o Str("_")
                             \o now_stamp(clock) \o Str(".md")
             /\ \A i \in 1..Len(bodies) :
                   (bodies[i].out = p)
                      <=> (bodies[i].cmd = Val(args).cmd /\ bodies[i].at = clock)
             /\ \A c \in CallPaths : (c[2] = p) <=> (c[1] = <<k, md, clock>>)]_vars

\* two reports of one kind written in different seconds, at different paths
C19_Witness ==
    /\ Len(bodies) = 2
    /\ bodies[1].cmd = bodies[2].cmd /\ bodies[1].at # bodies[2].at
    /\ bodies[1].out # bodies[2].out
    /\ Exists(bodies[1].out) /\ Exists(bodies[2].out)

\* the root of the run is no directory: nothing has that name, or a file has
NoDirRoot ==
    /\ IsSome(args)
    /\ ~(Exists(Abspath(Val(args).path)) /\ EntryIsDir(Abspath(Val(args).path)))

\* C20: when the root does not exist or is not a directory, iter_files yields
\* nothing and raises nothing, and cmd_todo_scan returns its report, with the
\* text for no finding in it.
C20_MissingRootYieldsNothing ==
    (NoDirRoot /\ Val(args).cmd = "todo-scan") =>
        /\ yielded = <<>>
        /\ mpc # "scan" =>
              /\ IsSome(content)
              /\ Val(content) = Concat(<<md_h1(Str("TODO Scan")),
                                         Str("Scanned path: ") \o ArgStr(Val(args).path) \o <<LF, LF>>,
                                         md_h2(Str("Findings")),
                                         Str("No TODOs found.") \o <<LF>>>>)

\* todo-scan over a root that is a file has written its report and returned 0
C20_Witness ==
    /\ NoDirRoot /\ Val(args).cmd = "todo-scan"
    /\ Exists(Abspath(Val(args).path))
    /\ mpc = "idle" /\ ret = <<0>>
    /\ Mentions(ReadBack(fs, Val(out)), Str("No TODOs found."))

----------------------------------------------------------------------------
(* Claims about the paths of a walk, under SpecWalk *)

\* C21: every entry (full, rel) yielded during one iter_files(root) call has
\* rel relative to the one absolute root of the call: joining the root with
\* rel gives full, rel is not absolute and its first component is not "..";
\* relpath does not fail for a joined path, so rel is never full itself.
C21_RelativeToTheSameRoot ==
    \A i \in 1..Len(yielded) :
       LET full == yielded[i][1]
           rel == yielded[i][2]
       IN  /\ base = Normpath(base) /\ StartsWith(base, Cwd)
           /\ rel # <<>> /\ rel # full
           /\ Normpath(base \o rel) = full
           /\ rel[1] # PARDIR /\ rel[1] # <<>>
           /\ \A k \in 1..Len(rel) : 47 \notin {rel[k][j] : j \in 1..Len(rel[k])}

\* the walk of src has yielded src/a.py as a.py, and a second file
C21_Witness ==
    /\ base = Cwd \o <<Str("src")>>
    /\ Len(yielded) = 2
    /\ yielded[1] = <<Cwd \o <<Str("src"), Str("a.py")>>, <<Str("a.py")>>>>

----------------------------------------------------------------------------
(* Claims about calls of iter_files one after the other, under SpecTwice *)

YieldedRels == {yielded[i][2] : i \in 1..Len(yielded)}

\* the earlier calls with the root and the extensions of the one running
SameCall == {i \in 1..Len(walks) : walks[i].root = base /\ walks[i].exts = include_exts}

\* C22: iter_files(root) called twice with no filesystem change in between
\* yields the same set of relative paths; a call made after one that was dropped
\* before its end starts from the root again, and yields what that one had
\* yielded and the rest.
C22_SecondCallYieldsTheSameSet ==
    wpc = "done" =>
       \A i \in SameCall :
          /\ walks[i].exhausted => walks[i].rels = YieldedRels
          /\ walks[i].rels \subseteq YieldedRels

\* a call dropped after its first entry, of two, and a second call that has
\* yielded both
C22_Witness ==
    /\ wpc = "done" /\ SameCall = {1}
    /\ ~walks[1].exhausted
    /\ Cardinality(walks[1].rels) = 1 /\ Cardinality(YieldedRels) = 2

----------------------------------------------------------------------------
(* Claims about the end of a walk, under SpecLinks *)

\* the files of the tree
AllFiles == {p \in DOMAIN fs : fs[p].kind = "file"}

\* C23: over a finite tree iter_files(root) finishes, having yielded finitely
\* many entries (no more than the tree has files), also when a directory of the
\* tree is a symbolic link to a directory above it: the walk does not go down
\* through the link.
C23_WalkFinishes ==
    /\ [](Len(yielded) <= Cardinality(AllFiles))
    /\ (wpc = "walk") ~> (wpc = "done")

\* the walk of a tree where src/ln leads back to the working directory has
\* ended, both files yielded
C23_Witness ==
    /\ wpc = "done" /\ base = Cwd
    /\ Exists(Cwd \o <<Str("src"), Str("ln")>>)
    /\ Realpath(Cwd \o <<Str("src"), Str("ln")>>) = Cwd
    /\ Len(yielded) = 2

----------------------------------------------------------------------------
(* Claims about the converters and scanners, under SpecCmds *)

\* the readable .json files below the scanned root whose text json.loads
\* does not take
InvalidJson ==
    {p \in Readable : /\ FileExt(p[Len(p)]) = Str(".json")
                      /\ fs[p].data # <<>>
                      /\ JsonLoads(Utf8DecodeReplace(fs[p].data)) = None}

\* C24 as stated: a file with invalid syntax gives a line item naming that
\* file in the report of every converter or scanner of its format: the report
\* of json-schema-extract, run without reaching --max-files, names every .json
\* file that does not parse.
C24_InvalidFileIsNamedInReport ==
    (/\ IsSome(args) /\ Val(args).cmd = "json-schema-extract"
     /\ Val(args).max_files = 50 /\ IsSome(content))
    => \A p \in InvalidJson : Mentions(Val(content), PathStr(RelOf(p)))

\* the (file, URL) pairs of the scan: the URLs the pattern finds in the text
\* of each readable Markdown file below the scanned root (the files here are
\* no longer than the sample the binary check takes)
FoundUrls ==
    UNION {{<<RelOf(p), FindUrls(Utf8DecodeReplace(fs[p].data), 1)[i]>> :
               i \in 1..Len(FindUrls(Utf8DecodeReplace(fs[p].data), 1))} :
           p \in {q \in Readable : /\ FileExt(q[Len(q)]) = Str(".md")
                                   /\ Len(fs[q].data) <= SampleLen
                                   /\ ~is_binary_bytes(fs[q].data)}}

\* the lines, of those given, for the URL u of the file rel
LinkLines(lines, rel, u) ==
    LET prefix == <<45, 32>> \o PathStr(rel) \o <<58, 32>> \o u \o <<32, 8212, 32>>
    IN  {i \in 1..Len(lines) : /\ Len(lines[i]) >= Len(prefix)
                                /\ SubSeq(lines[i], 1, Len(prefix)) = prefix}

\* C25: in link-check-md every distinct URL found in a Markdown file has
\* exactly one result and one line of the report for that file; each request
\* that raises gives status 0 with the text of the error as the reason, and
\* the results of the requests before it and after it are all there at the
\* end; with --offline no request is ever sent and every result is 0 offline.
C25_OneResultPerUrlAndFailuresReported ==
    (IsSome(args) /\ Val(args).cmd = "link-check-md")
    => /\ Val(args).offline
          => /\ requests = <<>>
             /\ \A i \in 1..Len(findings) :
                   findings[i][3] = 0 /\ findings[i][4] = Str("offline")
       /\ ~Val(args).offline
          => /\ Len(requests) = Len(findings)
             /\ \A i \in 1..Len(findings) :
                   /\ findings[i][2] = requests[i].url
                   /\ requests[i].outcome.raised
                      => findings[i][3] = 0 /\ findings[i][4] = requests[i].outcome.text
                   /\ ~requests[i].outcome.raised
                      => /\ findings[i][3] = requests[i].outcome.status
                         /\ findings[i][4] = requests[i].outcome.text
       /\ mpc = "report_path"
          => LET results == [i \in 1..Len(findings) |-> <<findings[i][1], findings[i][2]>>]
                 lines == SplitLines(Val(content))
             IN  /\ {results[i] : i \in 1..Len(results)} = FoundUrls
                 /\ \A i, j \in 1..Len(results) : results[i] = results[j] => i = j
                 /\ \A i \in 1..Len(results) :
                       Cardinality(LinkLines(lines, results[i][1], results[i][2])) = 1

\* an online scan has ended whose first request raised and whose later ones,
\* in the same file and in the next one, were still made; one file holds the
\* same URL twice
C25_Witness ==
    /\ IsSome(args) /\ Val(args).cmd = "link-check-md" /\ ~Val(args).offline
    /\ mpc = "report_path"
    /\ Len(requests) = 3
    /\ requests[1].outcome.raised
    /\ ~requests[3].outcome.raised
    /\ findings[1][1] = findings[2][1] /\ findings[3][1] # findings[1][1]
    /\ Cardinality(FoundUrls) = 3
    /\ \E p \in Readable :
          Len(FindUrls(Utf8DecodeReplace(fs[p].data), 1)) = 3

----------------------------------------------------------------------------
(* The size ceiling and a file that grows while it is read, under SpecRead *)

\* C26 as stated: the size ceiling holds across the size lookup and the read:
\* whenever read_text_safe returns content, whatever another process appended
\* in between, the content comes from at most max_bytes bytes.
C26_ContentFromAtMostMaxBytes ==
    (rpc = "returned" /\ IsSome(result)) => Len(Val(data)) <= max_bytes

----------------------------------------------------------------------------
(* Claims about the command line, under SpecDispatch *)

\* the name of the function that goes with the subcommand n: cmd_ and n, each
\* hyphen an underscore
OwnHandler(n) == Str("cmd_") \o [i \in 1..Len(n) |-> IF Str(n)[i] = 45 THEN 95 ELSE Str(n)[i]]

\* every registered subcommand has a branch, which calls the function that
\* goes with it, a function the module defines, and names the report after it
EveryRegisteredHasItsBranch ==
    \A i \in DOMAIN Registered :
        LET n == Registered[i].name
            b == BranchOf(n)
        IN  /\ IsSome(b)
            /\ Str(Val(b).handler) = OwnHandler(n)
            /\ Val(b).handler \in Defined
            /\ Val(b).report = IF n = "template-gen" THEN <<"template-", ArgName>> ELSE <<n>>

\* C27: every subcommand registered with the parser has a branch in main that
\* calls its own handler and names the report with the subcommand's own name
\* (template-gen: template-{name}); the final 'Unknown command' branch is
\* never reached; and a command line that begins with X, as the one
\* run_from_wrapper(X, args) makes, runs the branch of X and no other.
C27_EverySubcommandRunsItsOwnBranch ==
    /\ EveryRegisteredHasItsBranch
    /\ mpc # "unknown"
    /\ IsSome(branch)
       => /\ Val(branch).test = Val(argv)[1]
          /\ Val(args).cmd = Val(argv)[1]
          /\ Str(Val(branch).handler) = OwnHandler(Val(argv)[1])
    /\ mpc = "write"
       => Val(out) = report_path(IF Val(argv)[1] = "template-gen"
                                 THEN Str("template-") \o Str(Val(argv)[3])
                                 ELSE Str(Val(argv)[1]),
                                 Str("md"), clock)

\* the wrapper of template-gen was run with --name api-spec, its handler has
\* returned and the report has its name
C27_Witness ==
    /\ argv = Some(<<"template-gen", "--name", "api-spec">>)
    /\ mpc = "write"
    /\ Val(branch).handler = "cmd_template_gen"
    /\ Val(out)[Len(Val(out))] = Str("template-api-spec_2026-01-01_000000.md")

----------------------------------------------------------------------------
(* Claims about many-params-scan, under SpecCmds *)

\* the functions of the readable Python file p, none if it does not parse
FunctionsOf(p) ==
    LET parsed == FunctionDefs(Utf8DecodeReplace(fs[p].data))
    IN  IF parsed = None THEN {} ELSE {Val(parsed)[i] : i \in 1..Len(Val(parsed))}

\* C28 as stated: many-params-scan reports each function whose parameter
\* count (positional, keyword-only, *args and **kwargs) is at least
\* max_params exactly once per file, however many functions the file defines.
C28_EachFunctionReportedOnce ==
    (IsSome(args) /\ Val(args).cmd = "many-params-scan" /\ mpc = "report_path")
    => \A p \in {q \in Readable : FileExt(q[Len(q)]) = Str(".py")} :
          \A n \in FunctionsOf(p) :
              TotalParams(n) >= Val(args).max_params
              => Cardinality({i \in 1..Len(findings) :
                                 findings[i] = <<RelOf(p), n.name, TotalParams(n)>>}) = 1

----------------------------------------------------------------------------
(* Claims about duplicate-file-contents-scan, under SpecScans *)

\* the lines of the report
DupLines == SplitLines(Val(content))

\* where the report lists the file rel, and the heading it is listed under
ListedAt(rel) == {i \in 1..Len(DupLines) : DupLines[i] = Str("- ") \o PathStr(rel)}
HeadingOf(i) ==
    LET before == {j \in 1..i : HasAt(DupLines[j], 1, Str("## "))}
    IN  IF before = {} THEN 0 ELSE CHOOSE j \in before : \A k \in before : k <= j

\* the file p can be read and is no larger than --max-bytes
Eligible(p) == fs[p].readable /\ Len(fs[p].data) <= Val(args).max_bytes

\* C29: in duplicate-file-contents-scan two yielded files are listed in the
\* same group if and only if both are readable, both of size at most
\* max_bytes and their bytes identical; a group is printed only with two
\* files or more; every file is in at most one group; and the fallback line
\* is printed exactly when no group has two files.
C29_GroupsAreTheFilesOfIdenticalBytes ==
    (IsSome(args) /\ Val(args).cmd = "duplicate-file-contents-scan" /\ mpc = "report_path")
    => LET entries == {yielded[i] : i \in 1..Len(yielded)}
           same(e, d) == /\ Eligible(e[1]) /\ Eligible(d[1])
                         /\ fs[e[1]].data = fs[d[1]].data
       IN  /\ \A e, d \in entries :
                 e # d =>
                   ((\E i \in ListedAt(e[2]), j \in ListedAt(d[2]) : HeadingOf(i) = HeadingOf(j))
                    <=> same(e, d))
           /\ \A e \in entries :
                 /\ Cardinality(ListedAt(e[2])) <= 1
                 /\ ListedAt(e[2]) # {} => \E d \in entries : d # e /\ same(e, d)
           /\ (\E i \in 1..Len(DupLines) : DupLines[i] = Str("No duplicate file contents found."))
              <=> ~\E e, d \in entries : e # d /\ same(e, d)

\* a scan with the default --max-bytes has ended: two groups are printed, the
\* file that cannot be read and the file like no other are in neither
C29_Witness ==
    /\ IsSome(args) /\ Val(args).cmd = "duplicate-file-contents-scan" /\ mpc = "report_path"
    /\ Val(args).max_bytes = DupMaxBytesDefault
    /\ Len(yielded) = 6
    /\ Cardinality({i \in 1..Len(DupLines) : HasAt(DupLines[i], 1, Str("## "))}) = 2
    /\ Cardinality({i \in 1..Len(DupLines) : HasAt(DupLines[i], 1, Str("- "))}) = 4

----------------------------------------------------------------------------
(* Claims about dir-size-report, under SpecSizes *)

\* the size the scan has for a yielded file: its bytes, 0 when it is gone
SizeSeen(e) == IF Exists(e[1]) THEN Len(fs[e[1]].data) ELSE 0

RECURSIVE SumSeen(_)
SumSeen(es) ==
    IF es = {} THEN 0
    ELSE LET e == CHOOSE x \in es : TRUE IN SizeSeen(e) + SumSeen(es \ {e})

\* the lines of the report that give a size, and the size each gives
SizeLines == SelectSeq(SplitLines(Val(content)), LAMBDA l : HasAt(l, 1, Str("- ")))
EndsWith(l, suffix) ==
    Len(l) >= Len(suffix) /\ SubSeq(l, Len(l) - Len(suffix) + 1, Len(l)) = suffix
MaxTotal == 20
SizeGiven(l) ==
    CHOOSE n \in 0..MaxTotal : EndsWith(l, Str(": ") \o Decimal(n) \o Str(" bytes"))

RECURSIVE SumGiven(_)
SumGiven(ls) == IF ls = <<>> THEN 0 ELSE SizeGiven(Head(ls)) + SumGiven(Tail(ls))

\* C30: in dir-size-report each reported directory's size is the sum of the
\* sizes of the yielded files directly in it (not in its subdirectories), a
\* file whose size cannot be read counting as 0; the reported sizes add up to
\* the total size of all yielded files; and the lines are in non-increasing
\* order of size.
C30_DirectorySizesAreSumsOfDirectFiles ==
    (IsSome(args) /\ Val(args).cmd = "dir-size-report" /\ mpc = "report_path")
    => LET entries == {yielded[i] : i \in 1..Len(yielded)}
           parent(e) == SubSeq(e[2], 1, Len(e[2]) - 1)
           dirsOf == {parent(e) : e \in entries}
           line(d) == Str("- ") \o (IF d = <<>> THEN Str(".") ELSE PathStr(d)) \o Str(": ")
                      \o Decimal(SumSeen({e \in entries : parent(e) = d})) \o Str(" bytes")
       IN  /\ Len(SizeLines) = Cardinality(dirsOf)
           /\ \A d \in dirsOf : \E i \in 1..Len(SizeLines) : SizeLines[i] = line(d)
           /\ SumGiven(SizeLines) = SumSeen(entries)
           /\ \A i \in 1..(Len(SizeLines) - 1) : SizeGiven(SizeLines[i]) >= SizeGiven(SizeLines[i + 1])

\* a scan of the three directories has ended: a file was deleted before its
\* size was looked up, the directory of the unreadable file has that file's
\* byte and no byte of the directory below it, and the largest directory,
\* walked last, is listed first
C30_Witness ==
    /\ IsSome(args) /\ Val(args).cmd = "dir-size-report" /\ mpc = "report_path"
    /\ Len(yielded) = 4
    /\ \E i \in 1..Len(yielded) : ~Exists(yielded[i][1]) /\ yielded[i][2] = <<Str("sub"), Str("c")>>
    /\ SizeLines = <<Str("- sub/deep: 5 bytes"), Str("- .: 3 bytes"), Str("- sub: 1 bytes")>>

====
